---- MODULE Spec2Model ----
(***************************************************************************)
(* State-machine model of mnee-connect:                                    *)
(*   - contracts/MneeEscrow.sol over the MockMNEE ERC-20 token,            *)
(*   - the SDK's MneeClient session-key payments,                          *)
(*   - the /api/escrow/release route (POST release, PUT refund),           *)
(*   - MneeClient's authorizeAgent / revokeSessionKey, the                 *)
(*     /api/session-keys and /api/paymaster/sponsor routes,                *)
(*   - AccountAbstractionService.sendGaslessPayment.                       *)
(***************************************************************************)
EXTENDS Integers, Sequences, FiniteSets, TLC

\* ------------------------------------------------------------------ bounds

\* block.timestamp / server clock values run over 0..MaxTime
MaxTime == 2
\* amounts passed to lockFunds run over 0..MaxAmount
MaxAmount == 1
\* a deadline passed to lockFunds lies at most MaxLead after block.timestamp
MaxLead == 1
\* at most MaxTasks escrow tasks are created in one run
MaxTasks == 2
\* at most MaxPayments sendPayment calls are made in one run
MaxPayments == 3
\* at most MaxConcurrent sendPayment calls are in flight together
MaxConcurrent == 2
\* tokens the first user holds when the escrow is deployed
InitBalance == 2
\* at most MaxRequests requests reach the /api/escrow/release route in one run
MaxRequests == 2
\* at most MaxKeys session keys are generated in one run
MaxKeys == 1
\* at most MaxOps authorizeAgent / revokeSessionKey calls are made in one run
MaxOps == 3
\* at most MaxUserOps sendGaslessPayment calls are made in one run
MaxUserOps == 2

\* ------------------------------------------------------------------ addresses

Zero == "0x0"
Escrow == "escrow"
Owner == "owner"
Users == {"alice", "bob", Owner}
\* the users who hold tokens at deployment and approve the escrow
Funders == {"alice"}
\* the addresses named as service provider in lockFunds: a third party, the
\* owner of the escrow, and address(0)
Providers == {"bob", Owner, Zero}
\* the trusted attestation backend's key, and a key it does not control
Attester == "attester"
Mallory == "mallory"
\* what ecrecover yields for a signature made over another message
Junk == "junk"
Holders == Users \cup {Escrow}

Amounts == 0..MaxAmount
Times == 0..MaxTime
Descriptions == {"", "task"}

\* attestation identifiers: bytes32(0), one the attestation provider issued,
\* and one nobody issued
ZeroUID == "uid0"
IssuedUID == "uidIssued"
ForgedUID == "uidForged"
UIDs == {ZeroUID, IssuedUID, ForgedUID}

\* ------------------------------------------------------------------ state

VARIABLES
    \* MockMNEE
    _balances,            \* address -> uint256
    _allowances,          \* <<owner, spender>> -> uint256
    \* MneeEscrow
    tasks,                \* taskId -> EscrowTask
    attestationProvider,  \* address
    _status,              \* ReentrancyGuard flag: ENTERED while a nonReentrant
                          \* call is suspended inside the token's transfer
    now,                  \* block.timestamp
    \* observation of the calls made
    paid,                 \* taskId -> number of token transfers made for the task
    lastCall,             \* the last call of the escrow that went through
    \* MneeClient
    keys,                 \* SessionKey objects, by object identity
    calls,                \* the sendPayment calls made, each with its position
    \* the backend's database and the requests to /api/escrow/release
    escrowTransaction,    \* taskId -> row of prisma.escrowTransaction
    webhookEvent,         \* rows of prisma.webhookEvent, in creation order
    requests,             \* the requests received, each with its position
    \* MneeClient's session keys and the owner's approve transactions
    sessionKeys,          \* this.sessionKeys: keyId -> SessionKey object
    approvals,            \* the approve transactions handed to the node
    ops,                  \* the authorizeAgent / revokeSessionKey calls made
    \* the backend's session keys and sponsorship requests
    sessionKey,           \* id -> row of prisma.sessionKey
    paymasterTransaction, \* rows of prisma.paymasterTransaction
    responses,            \* the requests to /api/session-keys and
                          \* /api/paymaster/sponsor, each with its position
    \* AccountAbstractionService
    userOps               \* the sendGaslessPayment calls, each with its position

tokenVars == <<_balances, _allowances>>

escrowVars == <<tasks, attestationProvider, _status, paid, lastCall>>

clientVars == <<keys, calls>>

routeVars == <<escrowTransaction, webhookEvent, requests>>

sessionVars == <<sessionKeys, approvals, ops, sessionKey,
                 paymasterTransaction, responses, userOps>>

vars == <<_balances, _allowances, tasks, attestationProvider, _status,
          now, paid, lastCall, keys, calls,
          escrowTransaction, webhookEvent, requests,
          sessionKeys, approvals, ops, sessionKey,
          paymasterTransaction, responses, userOps>>

\* no session key authorized, no request received
InitSessionVars ==
    /\ sessionKeys = <<>>
    /\ approvals = <<>>
    /\ ops = <<>>
    /\ sessionKey = <<>>
    /\ paymasterTransaction = <<>>
    /\ responses = <<>>
    /\ userOps = <<>>

\* ------------------------------------------------------------------ MockMNEE

\* MockMNEE._transfer: the revert reason, "" when it goes through
_transferErr(from, to, amount) ==
    IF from = Zero THEN "ERC20: transfer from zero address"
    ELSE IF to = Zero THEN "ERC20: transfer to zero address"
    ELSE IF _balances[from] < amount THEN "ERC20: insufficient balance"
    ELSE ""

_transfer(bal, from, to, amount) ==
    IF from = to THEN bal
    ELSE [bal EXCEPT ![from] = @ - amount, ![to] = @ + amount]

\* a faulty variant of transferFromErr: the allowance is not looked at
transferFromAnyAllowanceErr(spender, from, to, amount) ==
    _transferErr(from, to, amount)

\* MockMNEE.transferFrom as called by spender
transferFromErr(spender, from, to, amount) ==
    IF _allowances[<<from, spender>>] < amount THEN "ERC20: insufficient allowance"
    ELSE _transferErr(from, to, amount)

\* MockMNEE.approve(spender, amount) called by a user for the escrow
approve(u, amount) ==
    /\ _status = "NOT_ENTERED"
    /\ _allowances[<<u, Escrow>>] # amount
    /\ _allowances' = [_allowances EXCEPT ![<<u, Escrow>>] = amount]
    /\ UNCHANGED <<_balances, tasks, attestationProvider, _status, now,
                   paid, lastCall, clientVars, routeVars, sessionVars>>

\* ------------------------------------------------------------------ MneeEscrow

\* Each entry point f has an operator fErr giving the reason of the first
\* require that fails ("" when none does, in the order of the source), and an
\* action f for a call that goes through.  A call that reverts changes no
\* storage and no balance: it is no step.

NoSig == [kind |-> "empty"]
ShortSig == [kind |-> "short"]
BadSig == [kind |-> "malformed"]
Signed(signer, taskId, uid, sp) ==
    [kind |-> "signed", signer |-> signer, msg |-> <<taskId, uid, sp>>]

call(fn, caller, taskId, uid, sig, flag, err) ==
    [fn |-> fn, caller |-> caller, task |-> taskId, uid |-> uid, sig |-> sig,
     flag |-> flag, err |-> err]

NoTask == <<>>

\* keccak256(abi.encodePacked(msg.sender, provider, amount, block.timestamp, description))
TaskIdOf(sender, provider, amount, time, description) ==
    <<sender, provider, amount, time, description>>

\* ecrecover over the message hash: the signer when the signature was made over
\* this message, an unrelated address when it was made over another one, and
\* the zero address when the signature is malformed
_recoverSigner(msg, sig) ==
    IF sig.kind = "malformed" THEN Zero
    ELSE IF sig.msg = msg THEN sig.signer
    ELSE Junk

_verifyAttestation(taskId, uid, sig, sp) ==
    IF sig.kind # "empty"
    THEN _recoverSigner(<<taskId, uid, sp>>, sig) = attestationProvider
    ELSE uid # ZeroUID

\* the nonReentrant modifier
nonReentrantErr == IF _status = "ENTERED" THEN "ReentrancyGuard: reentrant call" ELSE ""

FirstErr(errs) ==
    LET bad == {i \in 1..Len(errs) : errs[i] # ""}
    IN IF bad = {} THEN ""
       ELSE errs[CHOOSE i \in bad : \A j \in bad : i <= j]

\* a faulty variant of MoveFunds: the transfer is made and the status is left
\* as it was
MoveFundsStatusUnwritten(fn, taskId, newStatus, to, role, c) ==
    /\ _balances' = _transfer(_balances, Escrow, to, tasks[taskId].amount)
    /\ paid' = [paid EXCEPT ![taskId][role] = @ + 1]
    /\ _status' = "ENTERED"
    /\ lastCall' = c
    /\ UNCHANGED <<tasks, _allowances, attestationProvider, now,
                   clientVars, routeVars, sessionVars>>

\* a fund-moving call that passed its checks: the status is written, then the
\* token's transfer runs, and the call is suspended in it until it returns
MoveFunds(fn, taskId, newStatus, to, role, c) ==
    /\ tasks' = [tasks EXCEPT ![taskId].status = newStatus]
    /\ _balances' = _transfer(_balances, Escrow, to, tasks[taskId].amount)
    /\ paid' = [paid EXCEPT ![taskId][role] = @ + 1]
    /\ _status' = "ENTERED"
    /\ lastCall' = c
    /\ UNCHANGED <<_allowances, attestationProvider, now,
                   clientVars, routeVars, sessionVars>>

\* a faulty variant of lockFundsErr: the result of the token's transferFrom is
\* not looked at
lockFundsTransferUncheckedErr(sender, provider, amount, deadline, description) ==
    FirstErr(<<
        nonReentrantErr,
        IF provider = Zero THEN "Invalid provider address" ELSE "",
        IF amount > 0 THEN "" ELSE "Amount must be greater than 0",
        IF deadline > now THEN "" ELSE "Deadline must be in future",
        IF description # "" THEN "" ELSE "Description required",
        IF TaskIdOf(sender, provider, amount, now, description) \in DOMAIN tasks
            THEN "Task already exists" ELSE "" >>)

lockFundsErr(sender, provider, amount, deadline, description) ==
    FirstErr(<<
        nonReentrantErr,
        IF provider = Zero THEN "Invalid provider address" ELSE "",
        IF amount > 0 THEN "" ELSE "Amount must be greater than 0",
        IF deadline > now THEN "" ELSE "Deadline must be in future",
        IF description # "" THEN "" ELSE "Description required",
        IF TaskIdOf(sender, provider, amount, now, description) \in DOMAIN tasks
            THEN "Task already exists" ELSE "",
        transferFromErr(Escrow, sender, Escrow, amount) >>)

lockFunds(sender, provider, amount, deadline, description, autoRefund) ==
    LET taskId == TaskIdOf(sender, provider, amount, now, description)
        err == lockFundsErr(sender, provider, amount, deadline, description)
        c == call("lockFunds", sender, taskId, ZeroUID, NoSig, autoRefund, err)
    IN  /\ Cardinality(DOMAIN tasks) < MaxTasks
        /\ err = ""
        /\ _allowances' = [_allowances EXCEPT ![<<sender, Escrow>>] = @ - amount]
        /\ _balances' = _transfer(_balances, sender, Escrow, amount)
        /\ tasks' = [id \in DOMAIN tasks \cup {taskId} |->
                        IF id = taskId
                        THEN [agent |-> sender, serviceProvider |-> provider,
                              amount |-> amount, deadline |-> deadline,
                              status |-> "Active", autoRefund |-> autoRefund]
                        ELSE tasks[id]]
        /\ paid' = [id \in DOMAIN tasks \cup {taskId} |->
                        IF id = taskId THEN [provider |-> 0, agent |-> 0]
                        ELSE paid[id]]
        /\ lastCall' = c
        /\ UNCHANGED <<attestationProvider, _status, now,
                       clientVars, routeVars, sessionVars>>

releaseWithProofErr(taskId, uid, sig) ==
    FirstErr(<<
        nonReentrantErr,
        IF taskId \in DOMAIN tasks THEN "" ELSE "Task does not exist",
        IF taskId \in DOMAIN tasks /\ tasks[taskId].status # "Active"
            THEN "Task not active" ELSE "",
        IF taskId \in DOMAIN tasks /\ now > tasks[taskId].deadline
            THEN "Task deadline passed" ELSE "",
        IF sig.kind = "short" THEN "Invalid signature length" ELSE "",
        IF taskId \in DOMAIN tasks
              /\ sig.kind # "short"
              /\ ~_verifyAttestation(taskId, uid, sig, tasks[taskId].serviceProvider)
            THEN "Invalid attestation" ELSE "",
        IF taskId \in DOMAIN tasks
            THEN _transferErr(Escrow, tasks[taskId].serviceProvider, tasks[taskId].amount)
            ELSE "" >>)

\* msg.sender is not read: anyone may call
releaseWithProof(taskId, uid, sig) ==
    LET err == releaseWithProofErr(taskId, uid, sig)
        c == call("releaseWithProof", Zero, taskId, uid, sig, FALSE, err)
    IN  /\ err = ""
        /\ MoveFunds("releaseWithProof", taskId, "Completed",
                     tasks[taskId].serviceProvider, "provider", c)

refundErr(caller, taskId) ==
    FirstErr(<<
        nonReentrantErr,
        IF taskId \in DOMAIN tasks THEN "" ELSE "Task does not exist",
        IF taskId \in DOMAIN tasks /\ tasks[taskId].status # "Active"
            THEN "Task not active" ELSE "",
        IF taskId \in DOMAIN tasks
              /\ ~(caller = tasks[taskId].agent \/ tasks[taskId].autoRefund)
            THEN "Not authorized or auto-refund disabled" ELSE "",
        IF taskId \in DOMAIN tasks /\ ~(now > tasks[taskId].deadline)
            THEN "Deadline not passed" ELSE "",
        IF taskId \in DOMAIN tasks
            THEN _transferErr(Escrow, tasks[taskId].agent, tasks[taskId].amount)
            ELSE "" >>)

refund(caller, taskId) ==
    LET err == refundErr(caller, taskId)
        c == call("refund", caller, taskId, ZeroUID, NoSig, FALSE, err)
    IN  /\ err = ""
        /\ MoveFunds("refund", taskId, "Refunded", tasks[taskId].agent, "agent", c)

\* a faulty variant of disputeErr: the status is not looked at
disputeAnyStatusErr(caller, taskId) ==
    FirstErr(<<
        IF taskId \in DOMAIN tasks THEN "" ELSE "Task does not exist",
        IF taskId \in DOMAIN tasks
              /\ ~(caller = tasks[taskId].agent \/ caller = tasks[taskId].serviceProvider)
            THEN "Not authorized" ELSE "" >>)

disputeErr(caller, taskId) ==
    FirstErr(<<
        IF taskId \in DOMAIN tasks THEN "" ELSE "Task does not exist",
        IF taskId \in DOMAIN tasks /\ tasks[taskId].status # "Active"
            THEN "Task not active" ELSE "",
        IF taskId \in DOMAIN tasks
              /\ ~(caller = tasks[taskId].agent \/ caller = tasks[taskId].serviceProvider)
            THEN "Not authorized" ELSE "" >>)

\* dispute carries no nonReentrant modifier: it also runs inside a token call
dispute(caller, taskId) ==
    LET err == disputeErr(caller, taskId)
        c == call("dispute", caller, taskId, ZeroUID, NoSig, FALSE, err)
    IN  /\ err = ""
        /\ tasks' = [tasks EXCEPT ![taskId].status = "Disputed"]
        /\ lastCall' = c
        /\ UNCHANGED <<_balances, _allowances, attestationProvider, _status,
                       now, paid, clientVars, routeVars, sessionVars>>

\* a faulty variant of resolveDisputeErr: the caller is not looked at
resolveDisputeAnyCallerErr(caller, taskId, releaseToProvider) ==
    FirstErr(<<
        nonReentrantErr,
        IF taskId \in DOMAIN tasks /\ tasks[taskId].status = "Disputed"
            THEN "" ELSE "Task not disputed",
        IF taskId \in DOMAIN tasks
            THEN _transferErr(Escrow,
                    IF releaseToProvider THEN tasks[taskId].serviceProvider
                    ELSE tasks[taskId].agent,
                    tasks[taskId].amount)
            ELSE "" >>)

resolveDisputeErr(caller, taskId, releaseToProvider) ==
    FirstErr(<<
        IF caller = Owner THEN "" ELSE "OwnableUnauthorizedAccount",
        nonReentrantErr,
        IF taskId \in DOMAIN tasks /\ tasks[taskId].status = "Disputed"
            THEN "" ELSE "Task not disputed",
        IF taskId \in DOMAIN tasks
            THEN _transferErr(Escrow,
                    IF releaseToProvider THEN tasks[taskId].serviceProvider
                    ELSE tasks[taskId].agent,
                    tasks[taskId].amount)
            ELSE "" >>)

resolveDispute(caller, taskId, releaseToProvider) ==
    LET err == resolveDisputeErr(caller, taskId, releaseToProvider)
        c == call("resolveDispute", caller, taskId, ZeroUID, NoSig, releaseToProvider, err)
    IN  /\ err = ""
        /\ IF releaseToProvider
           THEN MoveFunds("resolveDispute", taskId, "Completed",
                          tasks[taskId].serviceProvider, "provider", c)
           ELSE MoveFunds("resolveDispute", taskId, "Refunded",
                          tasks[taskId].agent, "agent", c)

emergencyWithdrawErr(caller) ==
    FirstErr(<<
        IF caller = Owner THEN "" ELSE "OwnableUnauthorizedAccount",
        IF _balances[Escrow] > 0 THEN "" ELSE "No balance" >>)

\* emergencyWithdraw carries no nonReentrant modifier and looks at no task
emergencyWithdraw(caller) ==
    LET err == emergencyWithdrawErr(caller)
        c == call("emergencyWithdraw", caller, NoTask, ZeroUID, NoSig, FALSE, err)
    IN  /\ err = ""
        /\ _balances' = _transfer(_balances, Escrow, Owner, _balances[Escrow])
        /\ lastCall' = c
        /\ UNCHANGED <<_allowances, tasks, attestationProvider, _status,
                       now, paid, clientVars, routeVars, sessionVars>>

updateAttestationProviderErr(caller, newProvider) ==
    FirstErr(<<
        IF caller = Owner THEN "" ELSE "OwnableUnauthorizedAccount",
        IF newProvider # Zero THEN "" ELSE "Invalid address" >>)

updateAttestationProvider(caller, newProvider) ==
    LET err == updateAttestationProviderErr(caller, newProvider)
        c == call("updateAttestationProvider", caller, NoTask, ZeroUID, NoSig, FALSE, err)
    IN  /\ err = ""
        /\ attestationProvider' = newProvider
        /\ lastCall' = c
        /\ UNCHANGED <<_balances, _allowances, tasks, _status, now, paid,
                       clientVars, routeVars, sessionVars>>

\* the token call returns: the nonReentrant modifier resets the flag
TransferReturns ==
    /\ _status = "ENTERED"
    /\ _status' = "NOT_ENTERED"
    /\ UNCHANGED <<_balances, _allowances, tasks, attestationProvider, now,
                   paid, lastCall, clientVars, routeVars, sessionVars>>

\* block.timestamp advances between transactions
Tick ==
    /\ _status = "NOT_ENTERED"
    /\ now < MaxTime
    /\ now' = now + 1
    /\ UNCHANGED <<tokenVars, escrowVars, clientVars, routeVars, sessionVars>>

\* the attestations presented with a release of taskId: no attestation, a bare
\* identifier (issued or made up), a signature of the attestation provider over
\* this task, one of another key, the provider's signature for another task,
\* and signatures that are not well-formed
Attestations(taskId) ==
    {<<ZeroUID, NoSig>>, <<IssuedUID, NoSig>>, <<ForgedUID, NoSig>>,
     <<IssuedUID, Signed(Attester, taskId, IssuedUID, tasks[taskId].serviceProvider)>>,
     <<ForgedUID, Signed(Mallory, taskId, ForgedUID, tasks[taskId].serviceProvider)>>,
     <<ZeroUID, BadSig>>, <<ZeroUID, ShortSig>>}
    \cup {<<IssuedUID, Signed(Attester, t, IssuedUID, tasks[t].serviceProvider)>> :
            t \in DOMAIN tasks \ {taskId}}

TaskIds == DOMAIN tasks

InitEscrow ==
    /\ _balances = [a \in Holders |-> IF a \in Funders THEN InitBalance ELSE 0]
    /\ _allowances = [p \in Users \X {Escrow} |-> 0]
    /\ tasks = <<>>
    /\ attestationProvider \in {Attester, Zero}
    /\ _status = "NOT_ENTERED"
    /\ now = 0
    /\ paid = <<>>
    /\ lastCall = call("constructor", Owner, NoTask, ZeroUID, NoSig, FALSE, "")
    /\ keys = <<>>
    /\ calls = <<>>
    /\ escrowTransaction = <<>>
    /\ webhookEvent = <<>>
    /\ requests = <<>>
    /\ InitSessionVars

EscrowStep ==
    \/ \E u \in Funders, a \in Amounts : approve(u, a)
    \/ \E u \in Users, p \in Providers, a \in Amounts, d \in now..(now + MaxLead),
          s \in Descriptions, ar \in BOOLEAN :
          lockFunds(u, p, a, d, s, ar)
    \/ \E t \in TaskIds : \E att \in Attestations(t) :
          releaseWithProof(t, att[1], att[2])
    \/ \E u \in Users, t \in TaskIds : refund(u, t)
    \/ \E u \in Users, t \in TaskIds : dispute(u, t)
    \/ \E u \in Users, t \in TaskIds, f \in BOOLEAN : resolveDispute(u, t, f)
    \/ \E u \in Users : emergencyWithdraw(u)
    \/ \E u \in Users, p \in {Attester, Zero} : updateAttestationProvider(u, p)
    \/ TransferReturns

NextEscrow ==
    \/ EscrowStep
    \/ Tick

\* ------------------------------------------------------------------ MneeClient

\* this.account of the client, the recipient of the payments, and the address
\* of the keypair a SessionKey object holds
Principal == "principal"
Merchant == "merchant"
SessionAddr(k) == <<"session", keys[k].keypair>>

\* MNEE_TOKEN_CONFIG.decimals
decimals == 6

\* a string is the sequence of its characters; the characters of a decimal
\* numeral and their values
DigitValue(c) == CHOOSE d \in 0..9 : ToString(d) = c

\* String.prototype.padEnd / padStart with a one-character filler
RECURSIVE padEnd(_, _, _)
padEnd(s, n, c) == IF Len(s) >= n THEN s ELSE padEnd(Append(s, c), n, c)

RECURSIVE padStart(_, _, _)
padStart(s, n, c) == IF Len(s) >= n THEN s ELSE padStart(<<c>> \o s, n, c)

\* String.prototype.slice(from, to) with 0 <= from, zero-based, `to` excluded
slice(s, from, to) ==
    SubSeq(s, from + 1, IF to < Len(s) THEN to ELSE Len(s))

\* amountStr.split('.'): the pieces between the dots
RECURSIVE split(_)
split(s) ==
    IF \A i \in DOMAIN s : s[i] # "." THEN <<s>>
    ELSE LET d == CHOOSE i \in DOMAIN s : s[i] = "." /\ \A j \in 1..(i - 1) : s[j] # "."
         IN  <<SubSeq(s, 1, d - 1)>> \o split(SubSeq(s, d + 1, Len(s)))

\* BigInt(string) of an optionally signed decimal numeral
RECURSIVE BigIntDigits(_)
BigIntDigits(s) ==
    IF s = <<>> THEN 0
    ELSE 10 * BigIntDigits(SubSeq(s, 1, Len(s) - 1)) + DigitValue(s[Len(s)])

BigInt(s) ==
    IF s # <<>> /\ Head(s) = "-" THEN 0 - BigIntDigits(Tail(s)) ELSE BigIntDigits(s)

\* bigint.toString()
RECURSIVE NatToString(_)
NatToString(n) ==
    IF n < 10 THEN <<ToString(n)>>
    ELSE Append(NatToString(n \div 10), ToString(n % 10))

toString(n) == IF n < 0 THEN <<"-">> \o NatToString(0 - n) ELSE NatToString(n)

\* String.prototype.replace(/0+$/, '')
RECURSIVE trimTrailingZeros(_)
trimTrailingZeros(s) ==
    IF s # <<>> /\ s[Len(s)] = "0" THEN trimTrailingZeros(SubSeq(s, 1, Len(s) - 1))
    ELSE s

\* toWei: the amount in the token's smallest unit
toWei(amountStr) ==
    LET parts == split(amountStr)
        whole == parts[1]
        decimal == IF Len(parts) > 1 THEN parts[2] ELSE <<>>
        paddedDecimal == padEnd(decimal, decimals, "0")
        truncatedDecimal == slice(paddedDecimal, 0, decimals)
    IN  BigInt(whole \o truncatedDecimal)

\* fromWei: the human readable amount
fromWei(wei) ==
    LET weiStr == padStart(toString(wei), decimals + 1, "0")
        decimalPosition == Len(weiStr) - decimals
        sliced == slice(weiStr, 0, decimalPosition)
        whole == IF sliced = <<>> THEN <<"0">> ELSE sliced
        decimal == slice(weiStr, decimalPosition, Len(weiStr))
        trimmedDecimal == trimTrailingZeros(decimal)
    IN  IF trimmedDecimal # <<>> THEN whole \o <<".">> \o trimmedDecimal ELSE whole

\* a faulty variant of _sendPaymentWithSessionKey's checks: a payment of the
\* whole remaining limit is turned down
limitCheckStrict(k, amount) ==
    IF now >= keys[k].expiresAt THEN "Session key has expired"
    ELSE IF amount >= keys[k].remainingLimit THEN "Amount exceeds session key limit"
    ELSE ""

\* isExpired: Math.floor(Date.now() / 1000) >= expiresAt
isExpired(expiresAt) == now >= expiresAt

\* the checks that open _sendPaymentWithSessionKey
limitCheck(k, amount) ==
    IF isExpired(keys[k].expiresAt) THEN "Session key has expired"
    ELSE IF amount > keys[k].remainingLimit THEN "Amount exceeds session key limit"
    ELSE ""

\* `reported` is the amount the message of the limit error ends with:
\* `Remaining: ${fromWei(sessionKey.remainingLimit)} MNEE`
NewCall(k, amount, pc, err) ==
    [key |-> k, amount |-> amount, pc |-> pc, tx |-> "none", status |-> "",
     err |-> err,
     reported |-> IF err = "Amount exceeds session key limit"
                  THEN fromWei(keys[k].remainingLimit) ELSE <<>>,
     \* observation: the clock and the key's remainingLimit when the call began
     at |-> now, before |-> keys[k].remainingLimit]

Finished(i) == calls[i].pc \in {"returned", "threw"}

InFlight == {i \in DOMAIN calls : ~Finished(i)}

\* sendPayment with a session key, up to the first await of
\* _sendPaymentWithSessionKey: the expiry and limit checks
_sendPaymentWithSessionKey(k, amount) ==
    /\ calls' = Append(calls,
          IF limitCheck(k, amount) # ""
              THEN NewCall(k, amount, "threw", limitCheck(k, amount))
          ELSE NewCall(k, amount, "writeContract", ""))
    /\ UNCHANGED <<tokenVars, escrowVars, routeVars, sessionVars, now, keys>>

\* calls made one after another: the next one starts when the last has ended
sendPayment(k, amount) ==
    /\ Len(calls) < MaxPayments
    /\ InFlight = {}
    /\ _sendPaymentWithSessionKey(k, amount)

\* calls made without awaiting one another
sendPaymentConcurrently(k, amount) ==
    /\ Len(calls) < MaxConcurrent
    /\ _sendPaymentWithSessionKey(k, amount)

\* sessionWalletClient.writeContract(transferFrom): the amount is encoded as a
\* uint256, the call is simulated for its gas, and the signed transaction
\* is handed to the node
writeContract(i) ==
    LET c == calls[i]
        sim == transferFromErr(SessionAddr(c.key), Principal, Merchant, c.amount)
    IN  /\ c.pc = "writeContract"
        /\ calls' = [calls EXCEPT ![i] =
              IF c.amount < 0
                  THEN [c EXCEPT !.pc = "threw", !.err = "IntegerOutOfRangeError"]
              ELSE IF sim # ""
                  THEN [c EXCEPT !.pc = "threw", !.err = sim]
              ELSE [c EXCEPT !.pc = "submitted", !.tx = "pending"]]
        /\ UNCHANGED <<tokenVars, escrowVars, routeVars, sessionVars, now, keys>>

\* the await of writeContract resumes: sessionKey.remainingLimit -= amount
updateRemainingLimit(i) ==
    LET c == calls[i]
    IN  /\ c.pc = "submitted"
        /\ keys' = [keys EXCEPT ![c.key].remainingLimit = @ - c.amount]
        /\ calls' = [calls EXCEPT ![i].pc = "waitReceipt"]
        /\ UNCHANGED <<tokenVars, escrowVars, routeVars, sessionVars, now>>

\* the chain executes the pending transferFrom (MockMNEE.transferFrom)
mine(i) ==
    LET c == calls[i]
        spender == SessionAddr(c.key)
        err == transferFromErr(spender, Principal, Merchant, c.amount)
    IN  /\ c.tx = "pending"
        /\ IF err = ""
           THEN /\ _allowances' = [_allowances EXCEPT ![<<Principal, spender>>] = @ - c.amount]
                /\ _balances' = _transfer(_balances, Principal, Merchant, c.amount)
                /\ calls' = [calls EXCEPT ![i].tx = "success"]
           ELSE /\ calls' = [calls EXCEPT ![i].tx = "reverted"]
                /\ UNCHANGED tokenVars
        /\ UNCHANGED <<escrowVars, routeVars, sessionVars, now, keys>>

\* waitForTransactionReceipt resolves: the receipt's status becomes the result
waitForTransactionReceipt(i) ==
    LET c == calls[i]
    IN  /\ c.pc = "waitReceipt"
        /\ c.tx \in {"success", "reverted"}
        /\ calls' = [calls EXCEPT ![i].pc = "returned",
                                  ![i].status = IF c.tx = "success" THEN "confirmed"
                                                ELSE "failed"]
        /\ UNCHANGED <<tokenVars, escrowVars, routeVars, sessionVars, now, keys>>

\* waitForTransactionReceipt gives up on a transaction that is not yet mined
receiptTimeout(i) ==
    LET c == calls[i]
    IN  /\ c.pc = "waitReceipt"
        /\ c.tx = "pending"
        /\ calls' = [calls EXCEPT ![i].pc = "threw",
                                  ![i].err = "WaitForTransactionReceiptTimeoutError"]
        /\ UNCHANGED <<tokenVars, escrowVars, routeVars, sessionVars, now, keys>>

\* sendPayment without a session key: the principal's own transfer, mined
sendPaymentMain(amount) ==
    /\ _transferErr(Principal, Merchant, amount) = ""
    /\ _balances' = _transfer(_balances, Principal, Merchant, amount)
    /\ UNCHANGED <<_allowances, escrowVars, routeVars, sessionVars, now, keys, calls>>

\* the state after authorizeAgent({spendLimit, duration}) has returned and its
\* approve transaction is mined
InitClient(spendLimit, balance) ==
    /\ _balances = [a \in {Principal, Merchant} |-> IF a = Principal THEN balance ELSE 0]
    /\ keys = <<[keypair |-> 1, spendLimit |-> spendLimit,
                 remainingLimit |-> spendLimit, expiresAt |-> MaxTime]>>
    /\ _allowances = [p \in {<<Principal, <<"session", 1>> >>} |-> spendLimit]
    /\ calls = <<>>
    /\ now = 0
    /\ tasks = <<>>
    /\ attestationProvider = Attester
    /\ _status = "NOT_ENTERED"
    /\ paid = <<>>
    /\ lastCall = call("constructor", Owner, NoTask, ZeroUID, NoSig, FALSE, "")
    /\ escrowTransaction = <<>>
    /\ webhookEvent = <<>>
    /\ requests = <<>>
    /\ InitSessionVars

\* the amount strings given to sendPayment, which hands toWei(amount) on: the
\* figures of the specification's scenarios counted in the token's smallest
\* unit ("0.0004" is 400 units, "0.000601" one unit above "0.0006"), and a
\* negative amount
SeqAmounts ==
    {<<"-", "0", ".", "0", "0", "0", "0", "0", "1">>,
     <<"0", ".", "0", "0", "0", "4">>,
     <<"0", ".", "0", "0", "0", "6">>,
     <<"0", ".", "0", "0", "0", "6", "0", "1">>,
     <<"0", ".", "0", "0", "0", "7">>}
MainAmounts == {700}
ConcAmounts == {80}

ClientStep ==
    \/ \E i \in DOMAIN calls : writeContract(i)
    \/ \E i \in DOMAIN calls : updateRemainingLimit(i)
    \/ \E i \in DOMAIN calls : mine(i)
    \/ \E i \in DOMAIN calls : waitForTransactionReceipt(i)
    \/ \E i \in DOMAIN calls : receiptTimeout(i)
    \/ \E a \in MainAmounts : sendPaymentMain(a)
    \/ Tick

InitClientSeq == InitClient(1000, 1000)

NextClientSeq ==
    \/ \E k \in DOMAIN keys, a \in SeqAmounts : sendPayment(k, toWei(a))
    \/ ClientStep

InitClientConc == InitClient(100, 800)

NextClientConc ==
    \/ \E k \in DOMAIN keys, a \in ConcAmounts : sendPaymentConcurrently(k, a)
    \/ ClientStep

\* ------------------------------------------------------------------ MneeClient session keys

\* the text of the address of the n-th keypair generated, used as keyId when
\* authorizeAgent is given no label
AddressText(n) == "0xsession" \o ToString(n)

Labels == {"", "agent"}
KeyIds == (Labels \ {""}) \cup {AddressText(n) : n \in 1..MaxKeys}
SpendLimits == {100}
Durations == {MaxTime}

\* walletClient.writeContract either hands the signed transaction to the node
\* and returns its hash, or throws (no wallet client, a rejected signature, a
\* transport error)
Outcomes == {"hash", "throws"}

operation(op, keyId, k, err, tx) ==
    [op |-> op, keyId |-> keyId, key |-> k, err |-> err, tx |-> tx,
     \* observation: the payments begun before the call ended
     calls |-> Len(calls)]

\* MneeClient.getSessionKey: the index of the stored object, 0 for undefined
getSessionKey(keyId) ==
    IF keyId \in DOMAIN sessionKeys THEN sessionKeys[keyId] ELSE 0

\* MneeClient.approve(spender, amount) up to the return of writeContract
approveTx(spender, amount) == [spender |-> spender, amount |-> amount, tx |-> "pending"]

\* MneeClient.authorizeAgent({spendLimit, duration, label})
authorizeAgent(label, spendLimit, duration, outcome) ==
    LET k == Len(keys) + 1
        keyId == IF label # "" THEN label ELSE AddressText(k)
        key == [keypair |-> k, spendLimit |-> spendLimit,
                remainingLimit |-> spendLimit, expiresAt |-> now + duration]
    IN  /\ Len(ops) < MaxOps
        /\ keys' = Append(keys, key)
        /\ sessionKeys' = [id \in DOMAIN sessionKeys \cup {keyId} |->
                              IF id = keyId THEN k ELSE sessionKeys[id]]
        /\ IF outcome = "hash"
           THEN /\ approvals' = Append(approvals, approveTx(<<"session", k>>, spendLimit))
                /\ ops' = Append(ops, operation("authorizeAgent", keyId, k, "",
                                                Len(approvals) + 1))
           ELSE /\ approvals' = approvals
                /\ ops' = Append(ops, operation("authorizeAgent", keyId, k,
                                                "writeContract failed", 0))
        /\ UNCHANGED <<tokenVars, escrowVars, routeVars, now, calls, sessionKey,
                       paymasterTransaction, responses, userOps>>

\* MneeClient.revokeSessionKey(keyId)
revokeSessionKey(keyId, outcome) ==
    LET k == getSessionKey(keyId)
    IN  /\ Len(ops) < MaxOps
        /\ IF k = 0
           THEN /\ ops' = Append(ops, operation("revokeSessionKey", keyId, 0,
                                                "Session key not found", 0))
                /\ UNCHANGED <<sessionKeys, approvals>>
           ELSE IF outcome = "hash"
           THEN /\ approvals' = Append(approvals, approveTx(SessionAddr(k), 0))
                /\ sessionKeys' = [id \in DOMAIN sessionKeys \ {keyId} |-> sessionKeys[id]]
                /\ ops' = Append(ops, operation("revokeSessionKey", keyId, k, "",
                                                Len(approvals) + 1))
           ELSE /\ ops' = Append(ops, operation("revokeSessionKey", keyId, k,
                                                "writeContract failed", 0))
                /\ UNCHANGED <<sessionKeys, approvals>>
        /\ UNCHANGED <<tokenVars, escrowVars, routeVars, now, keys, calls, sessionKey,
                       paymasterTransaction, responses, userOps>>

\* the chain executes a pending approve of the principal (MockMNEE.approve)
mineApprove(j) ==
    LET a == approvals[j]
    IN  /\ a.tx = "pending"
        /\ _allowances' = [_allowances EXCEPT ![<<Principal, a.spender>>] = a.amount]
        /\ approvals' = [approvals EXCEPT ![j].tx = "success"]
        /\ UNCHANGED <<_balances, escrowVars, routeVars, now, keys, calls, sessionKeys,
                       ops, sessionKey, paymasterTransaction, responses, userOps>>

\* the holder of a SessionKey object writes its remainingLimit: the object is
\* a plain record handed back to sendPayment by the caller
HeldLimits == {1000}

setRemainingLimit(k, v) ==
    /\ keys[k].remainingLimit # v
    /\ keys' = [keys EXCEPT ![k].remainingLimit = v]
    /\ UNCHANGED <<tokenVars, escrowVars, routeVars, now, calls, sessionVars>>

\* ------------------------------------------------------------------ copies of a key object

\* The caller of sendPayment hands in a SessionKey object: the one
\* authorizeAgent returned, which is the one the client's map holds, or a
\* copy of it (a spread, or one parsed back from storage).  keys is the heap
\* of these objects; a copy is a further object with the same keypair.
MaxCopies == 1
CopyAmounts == {400, 700}

\* { ...sessionKey }: a new object with the fields of object k as they are
copy(k) ==
    /\ Len(keys) < 1 + MaxCopies
    /\ keys' = Append(keys, keys[k])
    /\ UNCHANGED <<tokenVars, escrowVars, routeVars, now, calls, sessionVars>>

\* the state after authorizeAgent({spendLimit: 1000, duration}) has returned
\* and its approve is mined
InitCopy ==
    /\ _balances = [a \in {Principal, Merchant} |-> IF a = Principal THEN 2000 ELSE 0]
    /\ keys = <<[keypair |-> 1, spendLimit |-> 1000,
                 remainingLimit |-> 1000, expiresAt |-> MaxTime]>>
    /\ _allowances = [p \in {<<Principal, <<"session", 1>> >>} |-> 1000]
    /\ calls = <<>>
    /\ now = 0
    /\ tasks = <<>>
    /\ attestationProvider = Attester
    /\ _status = "NOT_ENTERED"
    /\ paid = <<>>
    /\ lastCall = call("constructor", Owner, NoTask, ZeroUID, NoSig, FALSE, "")
    /\ escrowTransaction = <<>>
    /\ webhookEvent = <<>>
    /\ requests = <<>>
    /\ sessionKeys = [id \in {AddressText(1)} |-> 1]
    /\ approvals = <<[spender |-> <<"session", 1>>, amount |-> 1000, tx |-> "success"]>>
    /\ ops = <<operation("authorizeAgent", AddressText(1), 1, "", 1)>>
    /\ sessionKey = <<>>
    /\ paymasterTransaction = <<>>
    /\ responses = <<>>
    /\ userOps = <<>>

\* payments made one after another, each with any of the objects
NextCopy ==
    \/ \E k \in DOMAIN keys : copy(k)
    \/ \E k \in DOMAIN keys, a \in CopyAmounts : sendPayment(k, a)
    \/ \E i \in DOMAIN calls : writeContract(i)
    \/ \E i \in DOMAIN calls : updateRemainingLimit(i)
    \/ \E i \in DOMAIN calls : mine(i)
    \/ \E i \in DOMAIN calls : waitForTransactionReceipt(i)
    \/ \E i \in DOMAIN calls : receiptTimeout(i)
    \/ Tick

\* ------------------------------------------------------------------ several grants

\* The client authorizes up to MaxGrants keys, with a label or without, and
\* revokes by keyId; the chain mines the approve transactions.
MaxGrants == 2
GrantKeyIds == (Labels \ {""}) \cup {AddressText(n) : n \in 1..MaxGrants}

InitGrants ==
    /\ _balances = [a \in {Principal, Merchant} |-> IF a = Principal THEN 800 ELSE 0]
    /\ _allowances = [p \in {<<Principal, <<"session", n>> >> : n \in 1..MaxGrants} |-> 0]
    /\ keys = <<>>
    /\ calls = <<>>
    /\ now = 0
    /\ tasks = <<>>
    /\ attestationProvider = Attester
    /\ _status = "NOT_ENTERED"
    /\ paid = <<>>
    /\ lastCall = call("constructor", Owner, NoTask, ZeroUID, NoSig, FALSE, "")
    /\ escrowTransaction = <<>>
    /\ webhookEvent = <<>>
    /\ requests = <<>>
    /\ InitSessionVars

NextGrants ==
    \/ \E l \in Labels, sl \in SpendLimits, d \in Durations, o \in Outcomes :
          Len(keys) < MaxGrants /\ authorizeAgent(l, sl, d, o)
    \/ \E id \in GrantKeyIds, o \in Outcomes : revokeSessionKey(id, o)
    \/ \E j \in DOMAIN approvals : mineApprove(j)
    \/ Tick

\* ------------------------------------------------------------------ /api/session-keys

\* a request without the id / sessionKeyId parameter
NoId == 0
NoRow == [isActive |-> FALSE, revokedAt |-> -1, expiresAt |-> -1]

\* body is the set of session key objects in the JSON of the response
response(route, id, pc, status, error, before, after) ==
    [route |-> route, id |-> id, pc |-> pc, status |-> status, error |-> error,
     before |-> before, after |-> after, body |-> {},
     \* observation: the clock and the payments begun when the request came
     at |-> now, calls |-> Len(calls)]

\* the requests answered so far, the creations of rows apart
Answered == Cardinality({i \in DOMAIN responses : responses[i].route # "POST"})

\* the privateKey of the body of POST /api/session-keys for key k
privateKey(k) == "0xprivateKey" \o ToString(keys[k].keypair)

\* the row prisma.sessionKey.create stores for the body made of key k
sessionKey_create(k) ==
    [id |-> k, privateKey |-> privateKey(k), ownerAddress |-> Principal,
     isActive |-> TRUE, revokedAt |-> -1, expiresAt |-> keys[k].expiresAt]

\* the fields GET /api/session-keys selects, of those the rows have here
Selected == {"id", "ownerAddress", "expiresAt", "isActive"}

select(row) == [f \in Selected |-> row[f]]

\* POST /api/session-keys with the fields of key k: the row is created active
\* and not revoked, and the response carries the row as create returned it
POST_session_keys(k) ==
    /\ k \notin DOMAIN sessionKey
    /\ keys[k].spendLimit # 0 /\ keys[k].expiresAt # 0
    /\ sessionKey' = [id \in DOMAIN sessionKey \cup {k} |->
                         IF id = k THEN sessionKey_create(k) ELSE sessionKey[id]]
    /\ responses' = Append(responses,
          [response("POST", k, "returned", 201, "", NoRow, sessionKey_create(k))
              EXCEPT !.body = {sessionKey_create(k)}])
    /\ UNCHANGED <<tokenVars, escrowVars, clientVars, routeVars, now, sessionKeys,
                   approvals, ops, paymasterTransaction, userOps>>

\* GET /api/session-keys?owner=...&activeOnly=...: findMany with a select
GET(owner, activeOnly) ==
    LET found == {id \in DOMAIN sessionKey :
                    /\ sessionKey[id].ownerAddress = owner
                    /\ activeOnly => /\ sessionKey[id].isActive
                                     /\ sessionKey[id].expiresAt >= now}
    IN  /\ Answered < MaxRequests
        /\ responses' = Append(responses,
              IF owner = ""
              THEN response("GET", NoId, "returned", 400, "Owner address required",
                            NoRow, NoRow)
              ELSE [response("GET", NoId, "returned", 200, "", NoRow, NoRow)
                      EXCEPT !.body = {select(sessionKey[id]) : id \in found}])
        /\ UNCHANGED <<tokenVars, escrowVars, clientVars, routeVars, now, sessionKeys,
                       approvals, ops, sessionKey, paymasterTransaction, userOps>>

\* DELETE /api/session-keys?id=...
DELETE(id) ==
    /\ Answered < MaxRequests
    /\ IF id = NoId
       THEN /\ responses' = Append(responses,
                  response("DELETE", id, "returned", 400, "Session key ID required",
                           NoRow, NoRow))
            /\ UNCHANGED sessionKey
       ELSE IF id \notin DOMAIN sessionKey
       THEN /\ responses' = Append(responses,
                  response("DELETE", id, "returned", 500, "Failed to revoke session key",
                           NoRow, NoRow))
            /\ UNCHANGED sessionKey
       ELSE LET row == [sessionKey[id] EXCEPT !.isActive = FALSE, !.revokedAt = now]
            IN  /\ sessionKey' = [sessionKey EXCEPT ![id] = row]
                /\ responses' = Append(responses,
                      [response("DELETE", id, "returned", 200, "", sessionKey[id], row)
                          EXCEPT !.body = {row}])
    /\ UNCHANGED <<tokenVars, escrowVars, clientVars, routeVars, now, sessionKeys,
                   approvals, ops, paymasterTransaction, userOps>>

\* ------------------------------------------------------------------ /api/paymaster/sponsor

sponsorErr(id, amount) ==
    IF amount = 0 THEN "Missing required fields"
    ELSE IF id = NoId THEN ""
    ELSE IF id \notin DOMAIN sessionKey \/ ~sessionKey[id].isActive
        THEN "Invalid or inactive session key"
    ELSE IF sessionKey[id].expiresAt < now THEN "Session key has expired"
    ELSE ""

sponsorStatus(error) ==
    IF error = "" THEN 200
    ELSE IF error = "Missing required fields" THEN 400
    ELSE 403

\* POST /api/paymaster/sponsor up to the checks on the session key
POST_sponsor(id, amount) ==
    LET err == sponsorErr(id, amount)
    IN  /\ Answered < MaxRequests
        /\ responses' = Append(responses,
              IF err # ""
              THEN response("sponsor", id, "returned", sponsorStatus(err), err, NoRow, NoRow)
              ELSE response("sponsor", id, "create", 0, "", NoRow, NoRow))
        /\ UNCHANGED <<tokenVars, escrowVars, clientVars, routeVars, now, sessionKeys,
                       approvals, ops, sessionKey, paymasterTransaction, userOps>>

\* prisma.paymasterTransaction.create, the webhook event and the response
paymasterTransaction_create(i) ==
    /\ responses[i].pc = "create"
    /\ paymasterTransaction' = Append(paymasterTransaction,
          [sessionKeyId |-> responses[i].id, status |-> "PENDING"])
    /\ webhookEvent' = Append(webhookEvent,
          [eventType |-> "paymaster.sponsor.requested",
           paymasterTxId |-> Len(paymasterTransaction) + 1])
    /\ responses' = [responses EXCEPT ![i].pc = "returned", ![i].status = 200]
    /\ UNCHANGED <<tokenVars, escrowVars, clientVars, escrowTransaction, requests,
                   now, sessionKeys, approvals, ops, sessionKey, userOps>>

\* ------------------------------------------------------------------ AccountAbstractionService

\* the smart account the bundler deploys for the signer made of a session
\* key's private key
SmartAccount(k) == "account" \o ToString(keys[k].keypair)

\* the estimated gas cost converted to the token, by the gas price of the moment
Fees == {1, 2}
MaxFees == {1}
GaslessAmounts == {2}
SdkAmounts == {1}

NoSnapshot == [remainingLimit |-> -1, balance |-> -1]

userOperation(k, amount, max, fee, pc, error) ==
    [key |-> k, amount |-> amount, max |-> max, fee |-> fee, pc |-> pc,
     op |-> "none", success |-> FALSE, error |-> error,
     \* observation: the clock when the call began, and the key's
     \* remainingLimit and the owner's balance when the operation was submitted
     at |-> now, submit |-> NoSnapshot]

\* a faulty variant of sendGaslessPayment: the gas cost is not compared with
\* maxGasCostInMnee
sendGaslessPaymentAnyFee(k, amount, max, fee, outcome) ==
    /\ Len(userOps) < MaxUserOps
    /\ userOps' = Append(userOps,
          IF outcome = "throws"
              THEN userOperation(k, amount, max, 0, "returned", "createSmartAccount failed")
          ELSE userOperation(k, amount, max, fee, "getMneeBalance", ""))
    /\ UNCHANGED <<tokenVars, escrowVars, clientVars, routeVars, now, sessionKeys,
                   approvals, ops, sessionKey, paymasterTransaction, responses>>

\* sendGaslessPayment up to the check of the gas cost: createSmartAccount,
\* estimateUserOperationGas, convertGasCostToMnee
sendGaslessPayment(k, amount, max, fee, outcome) ==
    /\ Len(userOps) < MaxUserOps
    /\ userOps' = Append(userOps,
          IF outcome = "throws"
              THEN userOperation(k, amount, max, 0, "returned", "createSmartAccount failed")
          ELSE IF fee > max
              THEN userOperation(k, amount, max, fee, "returned", "Gas cost exceeds max")
          ELSE userOperation(k, amount, max, fee, "getMneeBalance", ""))
    /\ UNCHANGED <<tokenVars, escrowVars, clientVars, routeVars, now, sessionKeys,
                   approvals, ops, sessionKey, paymasterTransaction, responses>>

\* getMneeBalance(ownerAddress), "0" when the read fails, and the balance check
getMneeBalance(i, outcome) ==
    LET u == userOps[i]
        agentBalance == IF outcome = "throws" THEN 0 ELSE _balances[Principal]
    IN  /\ u.pc = "getMneeBalance"
        /\ userOps' = [userOps EXCEPT ![i] =
              IF agentBalance < u.amount + u.fee
              THEN [u EXCEPT !.pc = "returned", !.error = "Insufficient balance"]
              ELSE [u EXCEPT !.pc = "sendUserOperation"]]
        /\ UNCHANGED <<tokenVars, escrowVars, clientVars, routeVars, now, sessionKeys,
                       approvals, ops, sessionKey, paymasterTransaction, responses>>

\* smartAccount.sendUserOperation: the relay takes the operation when its
\* simulated transfer goes through, and the call throws otherwise or when the
\* relay fails
sendUserOperation(i, outcome) ==
    LET u == userOps[i]
        sim == _transferErr(SmartAccount(u.key), Merchant, u.amount)
    IN  /\ u.pc = "sendUserOperation"
        /\ userOps' = [userOps EXCEPT ![i] =
              IF outcome = "throws" \/ sim # ""
              THEN [u EXCEPT !.pc = "returned",
                             !.error = IF sim # "" THEN sim ELSE "sendUserOperation failed"]
              ELSE [u EXCEPT !.pc = "waitForUserOperationReceipt", !.op = "pending",
                             !.submit = [remainingLimit |-> keys[u.key].remainingLimit,
                                         balance |-> _balances[Principal]]]]
        /\ UNCHANGED <<tokenVars, escrowVars, clientVars, routeVars, now, sessionKeys,
                       approvals, ops, sessionKey, paymasterTransaction, responses>>

\* the bundler includes the operation: the smart account calls
\* MockMNEE.transfer(recipient, amount); a revert there leaves the operation
\* included with success = false
bundle(i) ==
    LET u == userOps[i]
        err == _transferErr(SmartAccount(u.key), Merchant, u.amount)
    IN  /\ u.op = "pending"
        /\ IF err = ""
           THEN /\ _balances' = _transfer(_balances, SmartAccount(u.key), Merchant, u.amount)
                /\ userOps' = [userOps EXCEPT ![i].op = "executed"]
           ELSE /\ userOps' = [userOps EXCEPT ![i].op = "failed"]
                /\ UNCHANGED _balances
        /\ UNCHANGED <<_allowances, escrowVars, clientVars, routeVars, now, sessionKeys,
                       approvals, ops, sessionKey, paymasterTransaction, responses>>

\* waitForUserOperationReceipt resolves with the receipt of an included
\* operation: success: true is returned whatever the receipt says
waitForUserOperationReceipt(i) ==
    LET u == userOps[i]
    IN  /\ u.pc = "waitForUserOperationReceipt"
        /\ u.op \in {"executed", "failed"}
        /\ userOps' = [userOps EXCEPT ![i].pc = "returned", ![i].success = TRUE]
        /\ UNCHANGED <<tokenVars, escrowVars, clientVars, routeVars, now, sessionKeys,
                       approvals, ops, sessionKey, paymasterTransaction, responses>>

\* waitForUserOperationReceipt gives up on an operation not yet included
userOperationTimeout(i) ==
    LET u == userOps[i]
    IN  /\ u.pc = "waitForUserOperationReceipt"
        /\ u.op = "pending"
        /\ userOps' = [userOps EXCEPT ![i].pc = "returned",
                                      ![i].error = "WaitForUserOperationReceiptTimeoutError"]
        /\ UNCHANGED <<tokenVars, escrowVars, clientVars, routeVars, now, sessionKeys,
                       approvals, ops, sessionKey, paymasterTransaction, responses>>

\* ------------------------------------------------------------------ session key runs

Accounts == {Principal, Merchant} \cup {"account" \o ToString(n) : n \in 1..MaxKeys}

\* a client with an account and no session key yet
InitSession ==
    /\ _balances = [a \in Accounts |-> IF a = Principal THEN 800 ELSE 0]
    /\ _allowances = [p \in {<<Principal, <<"session", n>> >> : n \in 1..MaxKeys} |-> 0]
    /\ keys = <<>>
    /\ calls = <<>>
    /\ now = 0
    /\ tasks = <<>>
    /\ attestationProvider = Attester
    /\ _status = "NOT_ENTERED"
    /\ paid = <<>>
    /\ lastCall = call("constructor", Owner, NoTask, ZeroUID, NoSig, FALSE, "")
    /\ escrowTransaction = <<>>
    /\ webhookEvent = <<>>
    /\ requests = <<>>
    /\ InitSessionVars

\* the SDK and the chain: keys are authorized and revoked, payments are
\* made with the key objects held, whatever their remainingLimit says
NextCeiling ==
    \/ \E l \in Labels, sl \in SpendLimits, d \in Durations, o \in Outcomes :
          Len(keys) < MaxKeys /\ authorizeAgent(l, sl, d, o)
    \/ \E id \in KeyIds, o \in Outcomes : revokeSessionKey(id, o)
    \/ \E j \in DOMAIN approvals : mineApprove(j)
    \/ \E k \in DOMAIN keys, v \in HeldLimits : setRemainingLimit(k, v)
    \/ \E k \in DOMAIN keys, a \in ConcAmounts : sendPaymentConcurrently(k, a)
    \/ \E i \in DOMAIN calls : writeContract(i)
    \/ \E i \in DOMAIN calls : updateRemainingLimit(i)
    \/ \E i \in DOMAIN calls : mine(i)
    \/ \E i \in DOMAIN calls : waitForTransactionReceipt(i)
    \/ \E i \in DOMAIN calls : receiptTimeout(i)

\* the SDK, the chain and the backend's session key rows
NextSession ==
    \/ \E l \in Labels, sl \in SpendLimits, d \in Durations, o \in Outcomes :
          Len(keys) < MaxKeys /\ authorizeAgent(l, sl, d, o)
    \/ \E id \in KeyIds, o \in Outcomes : revokeSessionKey(id, o)
    \/ \E j \in DOMAIN approvals : mineApprove(j)
    \/ \E k \in DOMAIN keys, a \in ConcAmounts : calls = <<>> /\ sendPaymentConcurrently(k, a)
    \/ \E i \in DOMAIN calls : writeContract(i)
    \/ \E i \in DOMAIN calls : updateRemainingLimit(i)
    \/ \E i \in DOMAIN calls : mine(i)
    \/ \E i \in DOMAIN calls : waitForTransactionReceipt(i)
    \/ \E i \in DOMAIN calls : receiptTimeout(i)
    \/ \E k \in DOMAIN keys : POST_session_keys(k)
    \/ \E id \in {NoId} \cup (1..MaxKeys) : InFlight = {} /\ DELETE(id)
    \/ InFlight = {} /\ Tick

\* the SDK authorizes a key, its fields are posted to the backend, and the
\* rows are listed and revoked through the API
Owners == {"", Principal}

NextKeysApi ==
    \/ \E l \in Labels, sl \in SpendLimits, d \in Durations, o \in Outcomes :
          Len(keys) < MaxKeys /\ authorizeAgent(l, sl, d, o)
    \/ \E j \in DOMAIN approvals : mineApprove(j)
    \/ \E k \in DOMAIN keys : POST_session_keys(k)
    \/ \E owner \in Owners, activeOnly \in BOOLEAN : GET(owner, activeOnly)
    \/ \E id \in {NoId} \cup (1..MaxKeys) : DELETE(id)
    \/ Tick

\* a session key authorized for GaslessLimit until GaslessExpiry, its approve
\* mined and its row stored; the owner and the key's smart account hold tokens
GaslessLimit == 2
GaslessExpiry == 1

InitGasless ==
    /\ _balances = [a \in Accounts |->
                       IF a = Principal THEN 3 ELSE IF a = "account1" THEN 2 ELSE 0]
    /\ _allowances = [p \in {<<Principal, <<"session", n>> >> : n \in 1..MaxKeys} |->
                         IF p[2][2] = 1 THEN GaslessLimit ELSE 0]
    /\ keys = <<[keypair |-> 1, spendLimit |-> GaslessLimit,
                 remainingLimit |-> GaslessLimit, expiresAt |-> GaslessExpiry]>>
    /\ calls = <<>>
    /\ now = 0
    /\ tasks = <<>>
    /\ attestationProvider = Attester
    /\ _status = "NOT_ENTERED"
    /\ paid = <<>>
    /\ lastCall = call("constructor", Owner, NoTask, ZeroUID, NoSig, FALSE, "")
    /\ escrowTransaction = <<>>
    /\ webhookEvent = <<>>
    /\ requests = <<>>
    /\ sessionKeys = [id \in {AddressText(1)} |-> 1]
    /\ approvals = <<[spender |-> <<"session", 1>>, amount |-> GaslessLimit, tx |-> "success"]>>
    /\ ops = <<>>
    /\ sessionKey = [id \in {1} |->
                        [id |-> 1, privateKey |-> "0xprivateKey1", ownerAddress |-> Principal,
                         isActive |-> TRUE, revokedAt |-> -1, expiresAt |-> GaslessExpiry]]
    /\ paymasterTransaction = <<>>
    /\ responses = <<>>
    /\ userOps = <<>>

NextGasless ==
    \/ \E k \in DOMAIN keys, a \in GaslessAmounts, m \in MaxFees, f \in Fees,
          o \in Outcomes : sendGaslessPayment(k, a, m, f, o)
    \/ \E i \in DOMAIN userOps, o \in Outcomes : getMneeBalance(i, o)
    \/ \E i \in DOMAIN userOps, o \in Outcomes : sendUserOperation(i, o)
    \/ \E i \in DOMAIN userOps : bundle(i)
    \/ \E i \in DOMAIN userOps : waitForUserOperationReceipt(i)
    \/ \E i \in DOMAIN userOps : userOperationTimeout(i)
    \/ \E id \in {NoId} \cup (1..MaxKeys), a \in 0..1 :
          responses = <<>> /\ POST_sponsor(id, a)
    \/ \E i \in DOMAIN responses : paymasterTransaction_create(i)
    \/ \E k \in DOMAIN keys, a \in SdkAmounts : calls = <<>> /\ sendPayment(k, a)
    \/ \E i \in DOMAIN calls : writeContract(i)
    \/ \E i \in DOMAIN calls : updateRemainingLimit(i)
    \/ \E i \in DOMAIN calls : mine(i)
    \/ \E i \in DOMAIN calls : waitForTransactionReceipt(i)
    \/ \E i \in DOMAIN calls : receiptTimeout(i)
    \/ Tick

\* ------------------------------------------------------------------ /api/escrow

\* The route handlers run on one event loop against one database: a handler
\* runs without interruption up to each await of a prisma call, where the
\* handlers of other requests may run.  The server's clock is now.

\* taskId and attestationUID of a request body: one that is missing, the
\* identifier of one task, and the attestation identifiers
AbsentId == ""
BodyTaskIds == {AbsentId, "0xa1"}
AbsentUID == ""
BodyUIDs == {AbsentUID} \cup UIDs

toLowerCase(status) ==
    CASE status = "ACTIVE" -> "active"
      [] status = "COMPLETED" -> "completed"
      [] status = "REFUNDED" -> "refunded"

\* the parties that send requests: the agent named in the rows, and another
\* one; the handlers authenticate nobody and the body names no sender
RouteAgent == "alice"
Senders == {RouteAgent, Mallory}

\* at is the clock value the handler read (new Date()), -1 before it did;
\* sender is the party the request came from, which no handler reads
request(method, sender, taskId, uid, pc, status, error) ==
    [method |-> method, taskId |-> taskId, attestationUID |-> uid, pc |-> pc,
     status |-> status, error |-> error, at |-> -1, sender |-> sender]

\* the HTTP status that goes with an error response
StatusCode(error) ==
    IF error = "" THEN 200 ELSE IF error = "Task not found" THEN 404 ELSE 400

\* the requests whose handler has not returned
Handling == {i \in DOMAIN requests : requests[i].pc # "returned"}

\* POST /api/escrow/create, its two prisma calls taken together: a request
\* with its fields present for a taskId that has no row stores an ACTIVE row
\* and logs escrow.created; nothing on chain is looked at
POST_create(taskId, deadline, autoRefund) ==
    /\ taskId # AbsentId
    /\ taskId \notin DOMAIN escrowTransaction
    /\ escrowTransaction' =
          [id \in DOMAIN escrowTransaction \cup {taskId} |->
              IF id = taskId
              THEN [status |-> "ACTIVE", deadline |-> deadline,
                    autoRefund |-> autoRefund, attestationUID |-> AbsentUID,
                    agentAddress |-> RouteAgent]
              ELSE escrowTransaction[id]]
    /\ webhookEvent' = Append(webhookEvent,
          [eventType |-> "escrow.created", taskId |-> taskId])
    /\ UNCHANGED <<tokenVars, escrowVars, clientVars, sessionVars, now, requests>>

\* POST /api/escrow/release: the error of the response to a request handled
\* against the rows and the clock as they are, "" when the handler goes on to
\* its update
POSTMissing(taskId, uid) ==
    IF taskId = AbsentId \/ uid = AbsentUID
    THEN "Missing taskId or attestationUID" ELSE ""

POSTErr(taskId, uid) ==
    FirstErr(<<
        POSTMissing(taskId, uid),
        IF taskId \in DOMAIN escrowTransaction THEN "" ELSE "Task not found",
        IF taskId \in DOMAIN escrowTransaction
              /\ escrowTransaction[taskId].status # "ACTIVE"
            THEN "Task is " \o toLowerCase(escrowTransaction[taskId].status)
                    \o ", cannot release"
            ELSE "",
        IF taskId \in DOMAIN escrowTransaction
              /\ escrowTransaction[taskId].deadline < now
            THEN "Task deadline has passed" ELSE "" >>)

\* PUT /api/escrow/release: likewise; the caller and autoRefund are not read
PUTMissing(taskId) ==
    IF taskId = AbsentId THEN "Missing taskId" ELSE ""

PUTErr(taskId) ==
    FirstErr(<<
        PUTMissing(taskId),
        IF taskId \in DOMAIN escrowTransaction THEN "" ELSE "Task not found",
        IF taskId \in DOMAIN escrowTransaction
              /\ escrowTransaction[taskId].status # "ACTIVE"
            THEN "Task is " \o toLowerCase(escrowTransaction[taskId].status)
                    \o ", cannot refund"
            ELSE "",
        IF taskId \in DOMAIN escrowTransaction
              /\ escrowTransaction[taskId].deadline >= now
            THEN "Deadline has not passed yet" ELSE "" >>)

\* a request arrives and its handler runs up to its first prisma call
receive(method, sender, taskId, uid) ==
    LET err == IF method = "POST" THEN POSTMissing(taskId, uid)
               ELSE PUTMissing(taskId)
    IN  /\ Len(requests) < MaxRequests
        /\ requests' = Append(requests,
              IF err # ""
              THEN request(method, sender, taskId, uid, "returned", StatusCode(err), err)
              ELSE request(method, sender, taskId, uid, "findUnique", 0, ""))
        /\ UNCHANGED <<tokenVars, escrowVars, clientVars, sessionVars, now,
                       escrowTransaction, webhookEvent>>

POST(taskId, uid) == receive("POST", RouteAgent, taskId, uid)

PUT(sender, taskId) == receive("PUT", sender, taskId, AbsentUID)

\* prisma.escrowTransaction.findUnique resolves: the handler checks the row it
\* read and the clock, and answers or goes on to its update
findUnique(i) ==
    LET r == requests[i]
        err == IF r.method = "POST" THEN POSTErr(r.taskId, r.attestationUID)
               ELSE PUTErr(r.taskId)
    IN  /\ r.pc = "findUnique"
        /\ requests' = [requests EXCEPT ![i] =
              IF err # ""
              THEN [r EXCEPT !.pc = "returned", !.status = StatusCode(err),
                             !.error = err, !.at = now]
              ELSE [r EXCEPT !.pc = "update", !.at = now]]
        /\ UNCHANGED <<tokenVars, escrowVars, clientVars, sessionVars, now,
                       escrowTransaction, webhookEvent>>

\* prisma.escrowTransaction.update({ where: { taskId }, data }) runs: the row
\* is written whatever its status is by now
update(i) ==
    LET r == requests[i]
    IN  /\ r.pc = "update"
        /\ escrowTransaction' = [escrowTransaction EXCEPT ![r.taskId] =
              IF r.method = "POST"
              THEN [@ EXCEPT !.status = "COMPLETED",
                             !.attestationUID = r.attestationUID]
              ELSE [@ EXCEPT !.status = "REFUNDED"]]
        /\ requests' = [requests EXCEPT ![i].pc = "webhookEvent.create"]
        /\ UNCHANGED <<tokenVars, escrowVars, clientVars, sessionVars, now, webhookEvent>>

\* prisma.webhookEvent.create runs and the handler answers 200
webhookEvent_create(i) ==
    LET r == requests[i]
    IN  /\ r.pc = "webhookEvent.create"
        /\ webhookEvent' = Append(webhookEvent,
              [eventType |-> IF r.method = "POST" THEN "escrow.released"
                             ELSE "escrow.refunded",
               taskId |-> r.taskId])
        /\ requests' = [requests EXCEPT ![i].pc = "returned",
                                        ![i].status = StatusCode("")]
        /\ UNCHANGED <<tokenVars, escrowVars, clientVars, sessionVars, now, escrowTransaction>>

RouteStep ==
    \/ \E i \in DOMAIN requests : findUnique(i)
    \/ \E i \in DOMAIN requests : update(i)
    \/ \E i \in DOMAIN requests : webhookEvent_create(i)
    \/ Tick

InitRoute ==
    /\ InitEscrow
    /\ attestationProvider = Attester

NextRoute ==
    \/ \E t \in BodyTaskIds, d \in Times, ar \in BOOLEAN : POST_create(t, d, ar)
    \/ \E t \in BodyTaskIds, uid \in BodyUIDs : POST(t, uid)
    \/ \E s \in Senders, t \in BodyTaskIds : PUT(s, t)
    \/ RouteStep

\* ------------------------------------------------------------------ contract and route

\* One agent's use of both: it locks funds on chain and has the backend keep a
\* row, releases and refunds are asked of the contract and of the route, one
\* route request at a time.
SettleTaskIds == BodyTaskIds \ {AbsentId}

SettleAttestations(t) ==
    {<<IssuedUID, NoSig>>,
     <<IssuedUID, Signed(Attester, t, IssuedUID, tasks[t].serviceProvider)>>}

NextSettle ==
    \/ \E u \in Funders : approve(u, MaxAmount)
    \/ \E u \in Funders, d \in now..(now + MaxLead) :
          lockFunds(u, "bob", MaxAmount, d, "task", TRUE)
    \/ \E t \in TaskIds : \E att \in SettleAttestations(t) :
          releaseWithProof(t, att[1], att[2])
    \/ \E u \in Users \ {Owner}, t \in TaskIds : refund(u, t)
    \/ emergencyWithdraw(Owner)
    \/ TransferReturns
    \/ \E t \in SettleTaskIds, d \in now..(now + MaxLead) :
          Handling = {} /\ POST_create(t, d, TRUE)
    \/ \E t \in SettleTaskIds : Handling = {} /\ POST(t, IssuedUID)
    \/ \E s \in Senders, t \in SettleTaskIds : Handling = {} /\ PUT(s, t)
    \/ RouteStep

\* ------------------------------------------------------------------ refund after the deadline

\* One agent locks funds for one provider; the provider and the owner are free
\* to call what the contract lets them call, and the agent calls refund.
LiveAgent == "alice"
LiveProvider == "bob"
LiveTaskIds == {TaskIdOf(LiveAgent, LiveProvider, MaxAmount, tm, "task") : tm \in Times}

InitLive == InitEscrow /\ attestationProvider = Attester

NextLive ==
    \/ approve(LiveAgent, MaxAmount)
    \/ \E d \in now..(now + MaxLead), ar \in BOOLEAN :
          lockFunds(LiveAgent, LiveProvider, MaxAmount, d, "task", ar)
    \/ \E t \in TaskIds :
          releaseWithProof(t, IssuedUID, Signed(Attester, t, IssuedUID, LiveProvider))
    \/ \E t \in TaskIds : refund(LiveAgent, t)
    \/ \E t \in TaskIds : dispute(LiveProvider, t)
    \/ \E t \in TaskIds, f \in BOOLEAN : resolveDispute(Owner, t, f)
    \/ TransferReturns
    \/ Tick

\* the chain keeps producing blocks, a token call returns, and the agent keeps
\* calling refund: a refund that can go through again and again does go through
FairLive ==
    /\ WF_vars(Tick)
    /\ WF_vars(TransferReturns)
    /\ \A t \in LiveTaskIds : SF_vars(refund(LiveAgent, t))

\* ------------------------------------------------------------------ escrow claims

RECURSIVE SumAmounts(_)
SumAmounts(S) ==
    IF S = {} THEN 0
    ELSE LET t == CHOOSE x \in S : TRUE
         IN tasks[t].amount + SumAmounts(S \ {t})

Held == {t \in TaskIds : tasks[t].status \in {"Active", "Disputed"}}

\* C1: for every task the escrow makes at most one token transfer, to the
\* service provider (the task is then Completed) or to the agent (the task is
\* then Refunded), never one to each; calls re-entered from inside the token's
\* transfer do not add a second one.
C1_FundsMoveAtMostOnce ==
    \A t \in TaskIds :
        /\ paid[t].provider + paid[t].agent <= 1
        /\ paid[t].provider = 1 <=> tasks[t].status = "Completed"
        /\ paid[t].agent = 1 <=> tasks[t].status = "Refunded"

\* inside the token's transfer of a paid task, where every re-entered
\* fund-moving call is rejected by the guard, a dispute was re-entered
C1_Witness ==
    /\ _status = "ENTERED"
    /\ lastCall.fn = "dispute"
    /\ \E t \in TaskIds :
          /\ paid[t].provider + paid[t].agent = 1
          /\ refundErr(tasks[t].agent, t) = "ReentrancyGuard: reentrant call"
          /\ releaseWithProofErr(t, IssuedUID, NoSig) = "ReentrancyGuard: reentrant call"

\* C2: the escrow's token balance covers the amounts of all Active and
\* Disputed tasks, in every reachable state.
C2_CustodyCoversHeldTasks ==
    _balances[Escrow] >= SumAmounts(Held)

TopLevel == _status = "NOT_ENTERED"

InCustody(t) == _balances[Escrow] >= tasks[t].amount

\* a step that is a releaseWithProof of an Active task t at block.timestamp <=
\* deadline with an attestation _verifyAttestation accepts, or a resolveDispute
\* by the owner with releaseToProvider on a Disputed task t
ProviderPath(t) ==
    /\ lastCall'.task = t
    /\ lastCall'.err = ""
    /\ \/ /\ lastCall'.fn = "releaseWithProof"
          /\ tasks[t].status = "Active"
          /\ now <= tasks[t].deadline
          /\ _verifyAttestation(t, lastCall'.uid, lastCall'.sig,
                                tasks[t].serviceProvider)
       \/ /\ lastCall'.fn = "resolveDispute"
          /\ lastCall'.caller = Owner
          /\ lastCall'.flag
          /\ tasks[t].status = "Disputed"

\* C6: the locked amount of a task reaches its service provider only in a
\* step that is a releaseWithProof of the Active task at block.timestamp <=
\* deadline with an accepted attestation, or a resolveDispute by the owner
\* with releaseToProvider on the Disputed task: no other call adds to the
\* tokens a service provider holds.
C6_ProviderPaidOnlyByTwoPaths ==
    [][ \A t \in TaskIds :
          LET p == tasks[t].serviceProvider
          IN  /\ paid'[t].provider > paid[t].provider => ProviderPath(t)
              /\ _balances'[p] > _balances[p] =>
                    \E t2 \in TaskIds :
                        /\ tasks[t2].serviceProvider = p
                        /\ ProviderPath(t2)
                        /\ _balances'[p] = _balances[p] + tasks[t2].amount
      ]_vars

\* what holds of the payments the escrow makes for a task: the transfer to the
\* task's service provider is made by the two paths only; the tokens of a
\* service provider who is not the owner grow by them only
PaidAsProviderOnlyByTwoPaths ==
    [][ \A t \in TaskIds :
          LET p == tasks[t].serviceProvider
          IN  /\ paid'[t].provider > paid[t].provider => ProviderPath(t)
              /\ (p # Owner /\ _balances'[p] > _balances[p]) =>
                    \E t2 \in TaskIds :
                        /\ tasks[t2].serviceProvider = p
                        /\ ProviderPath(t2)
                        /\ _balances'[p] = _balances[p] + tasks[t2].amount
      ]_vars

\* both paths were taken: one task released with proof, one resolved to the provider
BothProviderPaths ==
    /\ lastCall.fn = "resolveDispute" /\ lastCall.err = "" /\ lastCall.flag
    /\ \E t \in TaskIds \ {lastCall.task} : paid[t].provider = 1
    /\ paid[lastCall.task].provider = 1

\* C7: a release of an Active task presented with no attestation, or with one
\* the trusted attestation provider did not produce, is rejected as an
\* invalid attestation.
NotFromProvider(att) ==
    \/ att[1] = ZeroUID /\ att[2].kind = "empty"
    \/ att[1] = ForgedUID
    \/ att[2].kind = "malformed"

C7_ForgedAttestationRejected ==
    \A t \in TaskIds : \A att \in Attestations(t) :
        (TopLevel /\ tasks[t].status = "Active" /\ now <= tasks[t].deadline
            /\ NotFromProvider(att))
        => releaseWithProofErr(t, att[1], att[2]) = "Invalid attestation"

\* C8: a refund goes through only on an Active task after the deadline for the
\* agent or under autoRefund, and then pays the agent, not the caller; on an
\* Active task a permitted caller's refund at block.timestamp <= deadline
\* reverts with 'Deadline not passed' and changes nothing; after the deadline
\* a third party's refund of an Active autoRefund task goes through.
C8_RefundGuard ==
    [][ \A u \in Users, t \in TaskIds :
          LET T == tasks[t]
              allowed == u = T.agent \/ T.autoRefund
          IN  /\ refund(u, t) =>
                    /\ T.status = "Active" /\ now > T.deadline /\ allowed
                    /\ tasks'[t].status = "Refunded"
                    /\ _balances' = _transfer(_balances, Escrow, T.agent, T.amount)
              /\ (TopLevel /\ T.status = "Active" /\ allowed /\ now <= T.deadline) =>
                    /\ refundErr(u, t) = "Deadline not passed"
                    /\ ~refund(u, t)
              /\ (TopLevel /\ T.status = "Active" /\ T.autoRefund /\ now > T.deadline) =>
                    refundErr(u, t) = ""
      ]_vars

\* what holds of refund: the guard as stated, and after the deadline the refund
\* of an Active autoRefund task goes through exactly when the escrow still
\* holds the amount; it reverts in the token's transfer otherwise
RefundGuardInCustody ==
    [][ \A u \in Users, t \in TaskIds :
          LET T == tasks[t]
              allowed == u = T.agent \/ T.autoRefund
          IN  /\ refund(u, t) =>
                    /\ T.status = "Active" /\ now > T.deadline /\ allowed
                    /\ tasks'[t].status = "Refunded"
                    /\ _balances' = _transfer(_balances, Escrow, T.agent, T.amount)
              /\ (TopLevel /\ T.status = "Active" /\ allowed /\ now <= T.deadline) =>
                    /\ refundErr(u, t) = "Deadline not passed"
                    /\ ~refund(u, t)
              /\ (TopLevel /\ T.status = "Active" /\ T.autoRefund /\ now > T.deadline) =>
                    refundErr(u, t) = IF InCustody(t) THEN ""
                                      ELSE "ERC20: insufficient balance"
      ]_vars

\* a third party refunded an autoRefund task: the agent holds the amount again
RefundByThirdParty ==
    /\ lastCall.fn = "refund"
    /\ lastCall.caller # tasks[lastCall.task].agent
    /\ tasks[lastCall.task].autoRefund
    /\ tasks[lastCall.task].status = "Refunded"
    /\ _balances[tasks[lastCall.task].agent] = InitBalance
    /\ _balances[lastCall.caller] = 0

\* C10: a task's status only moves Active -> Completed | Refunded | Disputed
\* and Disputed -> Completed | Refunded; Completed and Refunded never change,
\* and a stored task is never removed or overwritten.
StatusMoves ==
    {<<"Active", "Completed">>, <<"Active", "Refunded">>, <<"Active", "Disputed">>,
     <<"Disputed", "Completed">>, <<"Disputed", "Refunded">>}

C10_StatusMonotonic ==
    [][ /\ \A t \in TaskIds :
              /\ t \in DOMAIN tasks'
              /\ \/ tasks'[t] = tasks[t]
                 \/ /\ <<tasks[t].status, tasks'[t].status>> \in StatusMoves
                    /\ tasks'[t] = [tasks[t] EXCEPT !.status = tasks'[t].status]
        /\ \A t \in DOMAIN tasks' \ TaskIds : tasks'[t].status = "Active"
      ]_vars

\* a task went Active -> Disputed -> Refunded and another was Completed; every
\* call on the Refunded task now reverts
C10_Witness ==
    /\ lastCall.fn = "resolveDispute" /\ ~lastCall.flag
    /\ tasks[lastCall.task].status = "Refunded"
    /\ paid[lastCall.task].agent = 1
    /\ \E t \in TaskIds : tasks[t].status = "Completed"
    /\ disputeErr(tasks[lastCall.task].agent, lastCall.task) = "Task not active"
    /\ resolveDisputeErr(Owner, lastCall.task, TRUE) # ""

\* ------------------------------------------------------------------ session key claims

\* the calls that returned a CONFIRMED receipt, those that threw for the limit,
\* and the calls whose transfer went through on chain
Confirmed == {i \in DOMAIN calls : calls[i].pc = "returned" /\ calls[i].status = "confirmed"}

LimitExceeded ==
    {i \in DOMAIN calls : calls[i].pc = "threw"
                            /\ calls[i].err = "Amount exceeds session key limit"}

Transferred == {i \in DOMAIN calls : calls[i].tx = "success"}

\* the calls stopped by something other than the limit: the key's expiry, or
\* a receipt that did not arrive in time
StoppedByEnvironment ==
    {i \in DOMAIN calls :
        calls[i].err \in {"Session key has expired",
                          "WaitForTransactionReceiptTimeoutError"}}

RECURSIVE SumCalls(_)
SumCalls(S) ==
    IF S = {} THEN 0
    ELSE LET i == CHOOSE x \in S : TRUE
         IN calls[i].amount + SumCalls(S \ {i})

\* C3: with the sendPayment calls of a session key made one after another,
\* after every call (its transaction mined, if it sent one) the amounts of the
\* successful payments add up to at most spendLimit, 0 <= remainingLimit <=
\* spendLimit, and remainingLimit is spendLimit minus that sum.
C3_RemainingLimitIsLimitMinusSpent ==
    (InFlight = {} /\ \A i \in DOMAIN calls : calls[i].tx # "pending") =>
        \A k \in DOMAIN keys :
            LET spent == SumCalls({i \in Transferred : calls[i].key = k})
            IN  /\ spent <= keys[k].spendLimit
                /\ 0 <= keys[k].remainingLimit
                /\ keys[k].remainingLimit <= keys[k].spendLimit
                /\ keys[k].remainingLimit = keys[k].spendLimit - spent

\* C4: of two concurrent payments of 80 with a key whose remainingLimit is 100
\* one succeeds and the other fails as over the limit, under every
\* interleaving: never two successes, never a negative remainingLimit.
C4_OneSuccessOneLimitExceeded ==
    /\ \A k \in DOMAIN keys : keys[k].remainingLimit >= 0
    /\ Cardinality(Confirmed) <= 1
    /\ (Len(calls) = MaxConcurrent /\ InFlight = {} /\ StoppedByEnvironment = {}) =>
          /\ Cardinality(Confirmed) = 1
          /\ Cardinality(LimitExceeded) = Len(calls) - 1

\* the calls that ended Failed: a receipt whose status is not success, or a
\* submission the node rejected
Failed ==
    {i \in DOMAIN calls :
        \/ calls[i].pc = "returned" /\ calls[i].status = "failed"
        \/ calls[i].pc = "threw" /\ calls[i].tx = "none"}

\* C16: the debit is provisional: once a payment has ended Failed (and no
\* other call was made since) remainingLimit is what it was before that
\* payment, and a Confirmed payment leaves it lower by its amount.
C16_FailedPaymentRestoresLimit ==
    \A i \in DOMAIN calls :
        i = Len(calls) =>
            /\ i \in Failed => keys[calls[i].key].remainingLimit = calls[i].before
            /\ i \in Confirmed =>
                  keys[calls[i].key].remainingLimit = calls[i].before - calls[i].amount

\* ------------------------------------------------------------------ route claims

\* the requests whose handler wrote the status of task t
Wrote(t) ==
    {i \in DOMAIN requests :
        /\ requests[i].taskId = t
        /\ \/ requests[i].pc = "webhookEvent.create"
           \/ requests[i].pc = "returned" /\ requests[i].status = StatusCode("")}

Settled(t) ==
    {j \in DOMAIN webhookEvent :
        /\ webhookEvent[j].taskId = t
        /\ webhookEvent[j].eventType \in {"escrow.released", "escrow.refunded"}}

\* C5: of the POST and PUT requests to /api/escrow/release on one ACTIVE task,
\* under every interleaving, one writes the status; the others do not write
\* it again and log no second escrow.released / escrow.refunded event.
C5_OneWinnerPerTask ==
    \A t \in DOMAIN escrowTransaction :
        /\ Cardinality(Wrote(t)) <= 1
        /\ Cardinality(Settled(t)) <= 1

\* C9: at now = deadline a release of an Active task with an accepted
\* attestation goes through and a refund fails as deadline-not-passed, and in
\* no state are a release and a refund of one task both let through; in the
\* contract (block.timestamp) and in the /api/escrow/release route (server
\* clock).
C9_DeadlineBoundary ==
    /\ \A t \in TaskIds :
          /\ (TopLevel /\ tasks[t].status = "Active" /\ now = tasks[t].deadline) =>
                /\ \A att \in Attestations(t) :
                      (/\ att[2].kind # "short"
                       /\ _verifyAttestation(t, att[1], att[2], tasks[t].serviceProvider))
                      => releaseWithProofErr(t, att[1], att[2]) = ""
                /\ refundErr(tasks[t].agent, t) = "Deadline not passed"
                /\ \A u \in Users : refundErr(u, t) # ""
          /\ \A u \in Users : \A att \in Attestations(t) :
                ~(releaseWithProofErr(t, att[1], att[2]) = "" /\ refundErr(u, t) = "")
    /\ \A t \in DOMAIN escrowTransaction :
          /\ (escrowTransaction[t].status = "ACTIVE"
                  /\ now = escrowTransaction[t].deadline) =>
                /\ \A uid \in UIDs : POSTErr(t, uid) = ""
                /\ PUTErr(t) = "Deadline has not passed yet"
          /\ \A uid \in BodyUIDs : ~(POSTErr(t, uid) = "" /\ PUTErr(t) = "")

\* what holds at the deadline: the same, the release on chain going through
\* exactly when the escrow still holds the amount
DeadlineBoundaryInCustody ==
    /\ \A t \in TaskIds :
          /\ (TopLevel /\ tasks[t].status = "Active" /\ now = tasks[t].deadline) =>
                /\ \A att \in Attestations(t) :
                      (/\ att[2].kind # "short"
                       /\ _verifyAttestation(t, att[1], att[2], tasks[t].serviceProvider))
                      => releaseWithProofErr(t, att[1], att[2]) =
                            IF InCustody(t) THEN "" ELSE "ERC20: insufficient balance"
                /\ refundErr(tasks[t].agent, t) = "Deadline not passed"
                /\ \A u \in Users : refundErr(u, t) # ""
          /\ \A u \in Users : \A att \in Attestations(t) :
                ~(releaseWithProofErr(t, att[1], att[2]) = "" /\ refundErr(u, t) = "")
    /\ \A t \in DOMAIN escrowTransaction :
          /\ (escrowTransaction[t].status = "ACTIVE"
                  /\ now = escrowTransaction[t].deadline) =>
                /\ \A uid \in UIDs : POSTErr(t, uid) = ""
                /\ PUTErr(t) = "Deadline has not passed yet"
          /\ \A uid \in BodyUIDs : ~(POSTErr(t, uid) = "" /\ PUTErr(t) = "")

\* at now = deadline a release went through on chain, and the route refused a
\* refund and then accepted a release of a row with that deadline
ReleasedAtDeadline ==
    /\ _status = "ENTERED"
    /\ lastCall.fn = "releaseWithProof"
    /\ tasks[lastCall.task].deadline = now
    /\ \E i, j \in DOMAIN requests :
          /\ requests[i].method = "PUT"
          /\ requests[i].error = "Deadline has not passed yet"
          /\ requests[j].method = "POST"
          /\ requests[j].pc = "returned" /\ requests[j].status = StatusCode("")
          /\ requests[i].at = now /\ requests[j].at = now
          /\ escrowTransaction[requests[j].taskId].deadline = now

\* ------------------------------------------------------------------ lockFunds

\* agentTasks[a] and providerTasks[p]: lockFunds pushes the new taskId on both
\* in the call that stores the task, and nothing else writes them
agentTasks(T, a) == {t \in DOMAIN T : T[t].agent = a}

providerTasks(T, p) == {t \in DOMAIN T : T[t].serviceProvider = p}

TransferFails(u, a) ==
    transferFromErr(Escrow, u, Escrow, a)
        \in {"ERC20: insufficient allowance", "ERC20: insufficient balance"}

\* C20: lockFunds stores a task only when the token's transferFrom from the
\* agent goes through: with a balance or an allowance below the amount no task
\* is stored, agentTasks and providerTasks stay as they are and no balance
\* moves; a call that goes through stores one new Active task and moves
\* exactly amount from the agent to the escrow.
C20_LockFundsWholesale ==
    [][ /\ DOMAIN tasks' # DOMAIN tasks =>
              \E t \in DOMAIN tasks' \ DOMAIN tasks :
                  LET new == tasks'[t]
                  IN  /\ ~TransferFails(new.agent, new.amount)
                      /\ DOMAIN tasks' = DOMAIN tasks \cup {t}
                      /\ \A o \in DOMAIN tasks : tasks'[o] = tasks[o]
                      /\ new.status = "Active"
                      /\ agentTasks(tasks', new.agent)
                             = agentTasks(tasks, new.agent) \cup {t}
                      /\ providerTasks(tasks', new.serviceProvider)
                             = providerTasks(tasks, new.serviceProvider) \cup {t}
                      /\ _balances' = [_balances EXCEPT
                                           ![new.agent] = @ - new.amount,
                                           ![Escrow] = @ + new.amount]
                      /\ _allowances' = [_allowances EXCEPT
                                           ![<<new.agent, Escrow>>] = @ - new.amount]
        /\ \A a \in Holders : _balances'[a] >= 0
        /\ \A pr \in DOMAIN _allowances' : _allowances'[pr] >= 0
      ]_vars

\* a task is stored while another caller's lockFunds of the same amount would
\* fail in the token's transferFrom, every other check passing
C20_Witness ==
    /\ lastCall.fn = "lockFunds"
    /\ \E t \in DOMAIN tasks : tasks[t].status = "Active" /\ _balances[Escrow] >= tasks[t].amount
    /\ \E u \in Users :
          /\ TransferFails(u, MaxAmount)
          /\ lockFundsErr(u, "bob", MaxAmount, now + MaxLead, "task")
                = transferFromErr(Escrow, u, Escrow, MaxAmount)

\* ------------------------------------------------------------------ refund claims

PastDeadlineUnreleased(t) ==
    /\ t \in DOMAIN tasks
    /\ now > tasks[t].deadline
    /\ tasks[t].status # "Completed"

RefundedToAgent(t) ==
    /\ t \in DOMAIN tasks
    /\ tasks[t].status = "Refunded"
    /\ paid[t].agent = 1

\* C19: a task that has not been released to the provider when its deadline
\* has passed is eventually Refunded with the amount back at the agent, the
\* agent calling refund for as long as it takes, whatever the provider and
\* the owner do in between.
C19_EventuallyRefunded ==
    \A t \in LiveTaskIds : PastDeadlineUnreleased(t) ~> RefundedToAgent(t)

\* what holds instead: a task still Active after its deadline is refunded
ActiveIsEventuallyRefunded ==
    \A t \in LiveTaskIds :
        (PastDeadlineUnreleased(t) /\ tasks[t].status = "Active") ~>
            (RefundedToAgent(t) \/ (t \in DOMAIN tasks /\ tasks[t].status = "Disputed"))

\* ------------------------------------------------------------------ expiry, revocation, authorization

\* C11: a payment attempted with a session key once now >= expiresAt is
\* rejected and moves no funds, on each of the three ways in: sendPayment throws
\* before anything is sent, sendGaslessPayment returns a failure without
\* submitting the operation, POST /api/paymaster/sponsor answers with an error
\* and records no sponsorship.
C11_ExpiredKeyRejected ==
    /\ \A i \in DOMAIN calls :
          calls[i].at >= keys[calls[i].key].expiresAt =>
              calls[i].pc = "threw" /\ calls[i].tx = "none"
    /\ \A i \in DOMAIN userOps :
          userOps[i].at >= keys[userOps[i].key].expiresAt =>
              /\ userOps[i].op = "none"
              /\ userOps[i].pc # "sendUserOperation"
              /\ ~userOps[i].success
    /\ \A i \in DOMAIN responses :
          (/\ responses[i].route = "sponsor"
           /\ responses[i].id \in DOMAIN sessionKey
           /\ responses[i].at >= sessionKey[responses[i].id].expiresAt) =>
              responses[i].pc = "returned" /\ responses[i].status >= 400

\* what holds of the SDK alone: sendPayment throws for a key that has expired,
\* the instant expiresAt included
ExpiredKeyRejectedBySendPayment ==
    \A i \in DOMAIN calls :
        calls[i].at >= keys[calls[i].key].expiresAt =>
            /\ calls[i].pc = "threw"
            /\ calls[i].err = "Session key has expired"
            /\ calls[i].tx = "none"

\* the payments begun after a revocation of their key had ended: a
\* revokeSessionKey that returned a hash, or a DELETE answered with 200
AfterRevocation ==
    {i \in DOMAIN calls :
        \/ \E j \in DOMAIN ops :
              /\ ops[j].op = "revokeSessionKey" /\ ops[j].err = ""
              /\ ops[j].key = calls[i].key
              /\ ops[j].calls < i
        \/ \E j \in DOMAIN responses :
              /\ responses[j].route = "DELETE" /\ responses[j].status = 200
              /\ responses[j].id = calls[i].key
              /\ responses[j].calls < i}

\* C12: no payment begun with a key after its revocation has ended succeeds,
\* the caller holding the key object or not.
C12_RevokedKeyCannotPay ==
    \A i \in AfterRevocation :
        /\ i \notin Confirmed
        /\ calls[i].tx # "success"

\* the revocations of a key that was already revoked: in the SDK a second
\* revokeSessionKey of a keyId with no authorizeAgent of that keyId in between,
\* in the backend a second DELETE of an id answered with 200 before
SecondRevokeSDK ==
    {j \in DOMAIN ops :
        /\ ops[j].op = "revokeSessionKey"
        /\ \E i \in 1..(j - 1) :
              /\ ops[i].op = "revokeSessionKey" /\ ops[i].err = ""
              /\ ops[i].keyId = ops[j].keyId
              /\ \A m \in (i + 1)..(j - 1) :
                    ~(ops[m].op = "authorizeAgent" /\ ops[m].keyId = ops[j].keyId)}

SecondRevokeDELETE ==
    {j \in DOMAIN responses :
        /\ responses[j].route = "DELETE"
        /\ \E i \in 1..(j - 1) :
              /\ responses[i].route = "DELETE" /\ responses[i].status = 200
              /\ responses[i].id = responses[j].id}

\* C13: revoking an already-revoked key returns without error, sends no
\* second allowance transaction and leaves the stored record as the first
\* revocation left it.
C13_SecondRevokeIsNoOp ==
    /\ \A j \in SecondRevokeSDK : ops[j].err = "" /\ ops[j].tx = 0
    /\ \A j \in SecondRevokeDELETE :
          responses[j].status = 200 /\ responses[j].after = responses[j].before

\* tokens move with a key only after an approve for its address was mined
KeyPaysOnlyAfterApprove ==
    \A i \in Transferred :
        \E a \in DOMAIN approvals :
            /\ approvals[a].spender = SessionAddr(calls[i].key)
            /\ approvals[a].amount > 0
            /\ approvals[a].tx = "success"

\* C14: when the approve of authorizeAgent fails no record of the key can be
\* read through getSessionKey, and a key moves tokens only after an approve
\* for its address has been mined.
C14_FailedGrantLeavesNoKey ==
    /\ \A j \in DOMAIN ops :
          (ops[j].op = "authorizeAgent" /\ ops[j].err # "") =>
              getSessionKey(ops[j].keyId) # ops[j].key
    /\ KeyPaysOnlyAfterApprove

\* C18: the transferFrom calls signed by a session address never move more
\* than the key's spendLimit out of the owner's balance, whatever remainingLimit
\* the key object holds and whatever payments are attempted.
C18_AllowanceIsCeiling ==
    /\ \A k \in DOMAIN keys :
          SumCalls({i \in Transferred : calls[i].key = k}) <= keys[k].spendLimit
    /\ _balances[Merchant] <= SumCalls(Transferred)
    /\ \A pr \in DOMAIN _allowances : _allowances[pr] >= 0

\* the key object says 1000 when the allowance was 100: one payment of 80 went
\* through and the next was stopped by the token
C18_Witness ==
    \E k \in DOMAIN keys :
        /\ keys[k].remainingLimit > keys[k].spendLimit
        /\ \E i \in Transferred : calls[i].key = k
        /\ \E i \in DOMAIN calls :
              /\ calls[i].key = k
              /\ calls[i].amount <= calls[i].before
              /\ \/ calls[i].tx = "reverted"
                 \/ calls[i].err = "ERC20: insufficient allowance"

\* ------------------------------------------------------------------ gasless claims

Submitted == {i \in DOMAIN userOps : userOps[i].op # "none"}

\* C15: sendGaslessPayment submits the user operation only when, at the
\* submission, amount + fee <= remainingLimit of the key, fee <= maxGasCostInMnee
\* and the owner's balance >= amount + fee.
C15_SubmittedOnlyWithinLimits ==
    \A i \in Submitted :
        LET u == userOps[i]
        IN  /\ u.amount + u.fee <= u.submit.remainingLimit
            /\ u.fee <= u.max
            /\ u.submit.balance >= u.amount + u.fee

\* what holds: the fee is within the maximum, and the owner's balance covered
\* amount + fee when it was read
SubmittedWithinMaxFee ==
    \A i \in Submitted : userOps[i].fee <= userOps[i].max

\* C17: sendGaslessPayment returns success = true only for a user operation
\* that was included and executed; an included operation that failed and a
\* relay failure give success = false.
C17_SuccessOnlyIfExecuted ==
    \A i \in DOMAIN userOps :
        (userOps[i].pc = "returned" /\ userOps[i].success) => userOps[i].op = "executed"

\* what holds: a relay failure or a rejected check gives success = false
NotSubmittedIsNotSuccess ==
    \A i \in DOMAIN userOps :
        (userOps[i].pc = "returned" /\ userOps[i].op = "none") => ~userOps[i].success

\* ------------------------------------------------------------------ dispute claims

\* the balances after `amount` went from the escrow's custody to `to`
Moved(bal, to, amount) ==
    /\ bal[Escrow] = _balances[Escrow] - amount
    /\ bal[to] = _balances[to] + amount
    /\ \A a \in Holders \ {Escrow, to} : bal[a] = _balances[a]

\* C26: dispute succeeds only on an Active task, only for the task's agent or
\* service provider, and moves no funds; resolveDispute succeeds only on a
\* Disputed task, only for the owner, and pays the provider (Completed) when
\* releaseToProvider is true and the agent (Refunded) otherwise; a Disputed
\* task is left by no other call: releaseWithProof and refund revert on it.
C26_DisputeAndResolution ==
    [][ \A t \in TaskIds :
          /\ tasks'[t].status = "Disputed" /\ tasks[t].status # "Disputed"
                => /\ tasks[t].status = "Active"
                   /\ lastCall'.fn = "dispute" /\ lastCall'.task = t
                   /\ lastCall'.caller \in {tasks[t].agent, tasks[t].serviceProvider}
                   /\ _balances' = _balances
          /\ tasks[t].status = "Disputed"
                => /\ \A att \in Attestations(t) :
                          releaseWithProofErr(t, att[1], att[2]) # ""
                   /\ \A u \in Users : refundErr(u, t) # ""
          /\ tasks[t].status = "Disputed" /\ tasks'[t].status # "Disputed"
                => /\ lastCall'.fn = "resolveDispute" /\ lastCall'.task = t
                   /\ lastCall'.caller = Owner
                   /\ IF lastCall'.flag
                      THEN /\ tasks'[t].status = "Completed"
                           /\ Moved(_balances', tasks[t].serviceProvider, tasks[t].amount)
                      ELSE /\ tasks'[t].status = "Refunded"
                           /\ Moved(_balances', tasks[t].agent, tasks[t].amount)
          /\ lastCall' # lastCall /\ lastCall'.fn = "dispute" /\ lastCall'.task = t
                => tasks[t].status = "Active" /\ tasks'[t].status = "Disputed"
          /\ lastCall' # lastCall /\ lastCall'.fn = "resolveDispute" /\ lastCall'.task = t
                => tasks[t].status = "Disputed" /\ lastCall'.caller = Owner
      ]_vars

\* the owner resolved a dispute in favour of the provider, who was paid, while
\* a second task is Disputed and every release and refund of it reverts
C26_Witness ==
    /\ lastCall.fn = "resolveDispute" /\ lastCall.flag /\ lastCall.caller = Owner
    /\ tasks[lastCall.task].status = "Completed"
    /\ paid[lastCall.task].provider = 1
    /\ _balances[tasks[lastCall.task].serviceProvider] > 0
    /\ \E t \in TaskIds :
          /\ tasks[t].status = "Disputed"
          /\ \A att \in Attestations(t) : releaseWithProofErr(t, att[1], att[2]) = "Task not active"
          /\ \A u \in Users : refundErr(u, t) = "Task not active"

\* ------------------------------------------------------------------ attestation claims

\* this step is a successful releaseWithProof that presented a signature
ReleasedWithSignature ==
    /\ lastCall'.fn = "releaseWithProof"
    /\ lastCall'.task \in TaskIds
    /\ tasks[lastCall'.task].status = "Active"
    /\ tasks'[lastCall'.task].status = "Completed"
    /\ lastCall'.sig.kind # "empty"

\* the signature of the call was made by the attestation provider's key over
\* (taskId, attestationUID, serviceProvider) of the released task
SignedByAttestationProvider ==
    /\ lastCall'.sig.kind = "signed"
    /\ lastCall'.sig.signer = attestationProvider
    /\ lastCall'.sig.msg =
          <<lastCall'.task, lastCall'.uid, tasks[lastCall'.task].serviceProvider>>

\* C27: a releaseWithProof carrying a non-empty signature succeeds only if the
\* signature is one of the configured attestationProvider over (taskId,
\* attestationUID, serviceProvider); a signature of another key, or a
\* malformed one that recovers to the zero address, releases nothing, whatever
\* attestationProvider the constructor was given.
C27_SignatureByAttestationProvider ==
    [][ ReleasedWithSignature => SignedByAttestationProvider ]_vars

\* once an attestation provider other than the zero address is configured, a
\* release with a signature is one signed by it
SignatureByNonZeroAttestationProvider ==
    [][ ReleasedWithSignature /\ attestationProvider # Zero
            => SignedByAttestationProvider ]_vars

\* a task was released on the attestation provider's signature over it
ReleasedOnProviderSignature ==
    /\ lastCall.fn = "releaseWithProof"
    /\ lastCall.sig.kind = "signed"
    /\ lastCall.sig.signer = Attester
    /\ attestationProvider = Attester
    /\ tasks[lastCall.task].status = "Completed"
    /\ paid[lastCall.task].provider = 1

\* this step is a successful releaseWithProof
Released ==
    /\ lastCall'.fn = "releaseWithProof"
    /\ lastCall'.task \in TaskIds
    /\ tasks[lastCall'.task].status = "Active"
    /\ tasks'[lastCall'.task].status = "Completed"

\* the (attestationUID, signature) pair of the call passes _verifyAttestation
\* for task t
AcceptedFor(t) ==
    /\ lastCall'.sig.kind # "short"
    /\ _verifyAttestation(t, lastCall'.uid, lastCall'.sig, tasks[t].serviceProvider)

\* C28: an (attestationUID, signature) pair that releaseWithProof accepted for
\* one task is not accepted for any other task: one proof of completion
\* cannot release the funds of two tasks.
C28_AttestationBoundToOneTask ==
    [][ Released => \A t \in TaskIds \ {lastCall'.task} : ~AcceptedFor(t) ]_vars

\* a signature of a non-zero attestation provider is bound to the task it was
\* made for
SignedAttestationBoundToOneTask ==
    [][ Released /\ lastCall'.sig.kind = "signed" /\ attestationProvider # Zero
            => \A t \in TaskIds \ {lastCall'.task} : ~AcceptedFor(t) ]_vars

\* a task was released on a signature while another task was stored, and the
\* signature made for the other task had been among the attestations offered
SignedReleaseBesideAnotherTask ==
    /\ lastCall.fn = "releaseWithProof"
    /\ lastCall.sig.kind = "signed"
    /\ attestationProvider = Attester
    /\ tasks[lastCall.task].status = "Completed"
    /\ \E t \in TaskIds \ {lastCall.task} : tasks[t].status = "Active"

\* ------------------------------------------------------------------ limit check claims

\* the calls that reached the limit check: the key had not expired
ReachedLimitCheck == {i \in DOMAIN calls : calls[i].err # "Session key has expired"}

\* C22: a session-key payment passes the limit check exactly when its amount
\* is at most remainingLimit (the whole of remainingLimit passes, one unit
\* more is turned down as over the limit); a payment turned down leaves
\* remainingLimit as it was, and the amount its error reports is the
\* remaining limit.
C22_LimitCheckIsExact ==
    \A i \in ReachedLimitCheck :
        /\ i \in LimitExceeded <=> calls[i].amount > calls[i].before
        /\ i \in LimitExceeded =>
              /\ toWei(calls[i].reported) = calls[i].before
              /\ calls[i].tx = "none"
              /\ i = Len(calls) => keys[calls[i].key].remainingLimit = calls[i].before

\* after a confirmed payment of 400 out of 1000 units, a payment of 601 was
\* turned down reporting "0.0006" (600 units), and then one of exactly 600 was
\* confirmed and left nothing
C22_Witness ==
    /\ Len(calls) = 3
    /\ 1 \in Confirmed /\ calls[1].amount = 400 /\ calls[1].before = 1000
    /\ 2 \in LimitExceeded /\ calls[2].amount = 601 /\ calls[2].before = 600
    /\ calls[2].reported = <<"0", ".", "0", "0", "0", "6">>
    /\ 3 \in Confirmed /\ calls[3].amount = 600 /\ calls[3].before = 600
    /\ keys[1].remainingLimit = 0

\* the scenario of the specification: after a debit of 400 out of 1000, a
\* debit of 700 is turned down and reports 600
LimitExceededReportsRemaining ==
    /\ Len(calls) = 2
    /\ 1 \in Confirmed /\ calls[1].amount = 400
    /\ 2 \in LimitExceeded /\ calls[2].amount = 700
    /\ toWei(calls[2].reported) = 600
    /\ keys[1].remainingLimit = 600

\* fromWei and toWei are inverse on the amounts a key can hold
FromWeiRoundTrip ==
    \A k \in DOMAIN keys :
        keys[k].remainingLimit >= 0 => toWei(fromWei(keys[k].remainingLimit)) = keys[k].remainingLimit

\* ------------------------------------------------------------------ gas cost claims

\* the sendGaslessPayment calls whose converted gas cost is above the
\* caller's maximum
FeeExceedsMax(U) == {i \in DOMAIN U : U[i].fee > U[i].max}

\* C21: a gasless payment whose converted gas cost is greater than
\* maxGasCostInMnee fails: sendGaslessPayment returns success = false with the
\* gas cost error, no user operation is submitted for it, then or later, and
\* the call changes nothing: balances, allowances and the session key's
\* remainingLimit are what they were.
C21_FeeAboveMaxSubmitsNothing ==
    [][ /\ \A i \in FeeExceedsMax(userOps') :
              /\ userOps'[i].pc = "returned"
              /\ ~userOps'[i].success
              /\ userOps'[i].error = "Gas cost exceeds max"
              /\ userOps'[i].op = "none"
        /\ \A i \in FeeExceedsMax(userOps') \ DOMAIN userOps :
              UNCHANGED <<tokenVars, escrowVars, clientVars, routeVars, now, sessionKeys,
                          approvals, ops, sessionKey, paymasterTransaction, responses>>
      ]_vars

\* a payment of 2 with a gas cost of 2 against a maximum of 1 was turned down
\* with the key's remainingLimit and the balances untouched, beside a payment
\* whose gas cost was within the maximum and which was executed
C21_Witness ==
    /\ Len(userOps) = 2
    /\ 1 \in FeeExceedsMax(userOps)
    /\ userOps[1].pc = "returned" /\ ~userOps[1].success /\ userOps[1].op = "none"
    /\ userOps[2].fee <= userOps[2].max /\ userOps[2].op = "executed"
    /\ keys[userOps[1].key].remainingLimit = GaslessLimit
    /\ _balances[Principal] = 3

\* ------------------------------------------------------------------ refund route claims

\* the PUT requests whose handler writes the row in this step
Refunding ==
    {i \in DOMAIN requests :
        /\ requests[i].method = "PUT"
        /\ requests[i].pc = "update"
        /\ requests'[i].pc # "update"}

\* the PUT requests for a row that has autoRefund = false, sent by someone
\* other than the row's agent
Unauthorized(R) ==
    {i \in DOMAIN R :
        /\ R[i].method = "PUT"
        /\ R[i].taskId \in DOMAIN escrowTransaction
        /\ ~escrowTransaction[R[i].taskId].autoRefund
        /\ R[i].sender # escrowTransaction[R[i].taskId].agentAddress}

\* C24: PUT /api/escrow/release writes REFUNDED only on a row that is ACTIVE,
\* whose deadline is behind the clock, and either for the row's agent or with
\* autoRefund set; a request of anyone else for a row with autoRefund = false
\* is answered with an error and the row stays as it is.
C24_RefundRouteGuard ==
    [][ /\ \A i \in Refunding :
              LET row == escrowTransaction[requests[i].taskId]
              IN  /\ row.status = "ACTIVE"
                  /\ now > row.deadline
                  /\ requests[i].sender = row.agentAddress \/ row.autoRefund
        /\ \A i \in Unauthorized(requests) :
              /\ i \notin Refunding
              /\ requests'[i].pc = "returned" => requests'[i].status >= 400
      ]_vars

\* what holds: the handler goes on to its update only for a row it read as
\* ACTIVE with its deadline behind the clock it read
RefundRouteChecksStatusAndDeadline ==
    \A i \in DOMAIN requests :
        (requests[i].method = "PUT" /\ requests[i].pc = "update") =>
            /\ requests[i].taskId \in DOMAIN escrowTransaction
            /\ requests[i].at > escrowTransaction[requests[i].taskId].deadline

\* a row with autoRefund = false was marked REFUNDED on the request of its
\* agent, after its deadline
RefundedForAgent ==
    \E i \in DOMAIN requests :
        /\ requests[i].method = "PUT" /\ requests[i].sender = RouteAgent
        /\ requests[i].pc = "returned" /\ requests[i].status = StatusCode("")
        /\ ~escrowTransaction[requests[i].taskId].autoRefund
        /\ escrowTransaction[requests[i].taskId].status = "REFUNDED"
        /\ requests[i].at > escrowTransaction[requests[i].taskId].deadline

\* ------------------------------------------------------------------ record and funds

\* C25: the backend's row agrees with where the funds are: a row is ACTIVE
\* only if an amount was moved from the agent into the escrow's custody, a
\* row is COMPLETED only if a task's amount was transferred to its provider,
\* and a row is REFUNDED only if a task's amount was transferred back to its
\* agent.
C25_RecordAgreesWithFunds ==
    \A id \in DOMAIN escrowTransaction :
        LET row == escrowTransaction[id]
        IN  /\ row.status = "ACTIVE" => TaskIds # {}
            /\ row.status = "COMPLETED" => \E t \in TaskIds : paid[t].provider > 0
            /\ row.status = "REFUNDED" => \E t \in TaskIds : paid[t].agent > 0

\* the row and the contract can agree: the agent locked funds and had the row
\* created, and both the contract and the route were asked for the release
RecordAndFundsCompleted ==
    \E id \in DOMAIN escrowTransaction : \E t \in TaskIds :
        /\ escrowTransaction[id].status = "COMPLETED"
        /\ tasks[t].status = "Completed"
        /\ paid[t].provider = 1

\* ------------------------------------------------------------------ private key claims

\* the session key objects of the responses of a route
Bodies(route) ==
    UNION {responses[i].body : i \in {j \in DOMAIN responses : responses[j].route = route}}

\* C23: no response of POST, GET or DELETE /api/session-keys carries the
\* privateKey field of a stored session key.
C23_PrivateKeyNeverReturned ==
    \A route \in {"POST", "GET", "DELETE"} :
        \A o \in Bodies(route) : "privateKey" \notin DOMAIN o

\* what holds: the list returned by GET carries no privateKey
PrivateKeyNotInList ==
    \A o \in Bodies("GET") : "privateKey" \notin DOMAIN o

\* a GET listed a stored row
ListedStoredKey ==
    \E o \in Bodies("GET") : o.id \in DOMAIN sessionKey /\ o.isActive

\* ------------------------------------------------------------------ stored record claims

\* the payments made through the key pair of object k, with whichever object
PaidThrough(k, S) ==
    {i \in S : calls[i].tx = "success" /\ keys[calls[i].key].keypair = keys[k].keypair}

\* no payment is under way
Quiet == InFlight = {} /\ \A i \in DOMAIN calls : calls[i].tx # "pending"

\* C29: after any sequence of sendPayment calls with a session key, made with
\* the object authorizeAgent returned or with a copy of it, the record
\* getSessionKey returns has remainingLimit = spendLimit minus the amounts
\* paid through the key, and a payment that would take the amounts paid
\* above spendLimit does not pass the limit check.
C29_StoredRecordTracksSpending ==
    /\ Quiet =>
          \A keyId \in DOMAIN sessionKeys :
              LET k == getSessionKey(keyId)
              IN  keys[k].remainingLimit =
                      keys[k].spendLimit - SumCalls(PaidThrough(k, DOMAIN calls))
    /\ \A i \in DOMAIN calls :
          LET k == calls[i].key
          IN  SumCalls(PaidThrough(k, 1..(i - 1))) + calls[i].amount > keys[k].spendLimit
                  => calls[i].pc = "threw" /\ calls[i].tx = "none"
                        /\ calls[i].err \in {"Amount exceeds session key limit",
                                             "Session key has expired"}

\* what holds: as long as every payment was made with the stored object
\* itself, the record tracks the spending and the limit check stops the
\* payment that would go over spendLimit
StoredObjectTracksSpending ==
    (\A i \in DOMAIN calls : calls[i].key \in {sessionKeys[id] : id \in DOMAIN sessionKeys}) =>
        C29_StoredRecordTracksSpending

\* payments of 400 and then 700 with the stored object: the second was turned
\* down by the limit check and the record says 600
StoredObjectTurnedDown ==
    /\ Len(calls) = 2 /\ Quiet
    /\ calls[1].key = 1 /\ calls[1].amount = 400 /\ 1 \in Confirmed
    /\ calls[2].key = 1 /\ calls[2].amount = 700 /\ 2 \in LimitExceeded
    /\ keys[getSessionKey(AddressText(1))].remainingLimit = 600

\* ------------------------------------------------------------------ grant claims

\* the keys that hold an allowance granted by authorizeAgent and were not
\* revoked: no revokeSessionKey of the key has gone through
Granted ==
    {k \in DOMAIN keys :
        /\ _allowances[<<Principal, SessionAddr(k)>>] > 0
        /\ \A j \in DOMAIN ops :
              ~(ops[j].op = "revokeSessionKey" /\ ops[j].key = k /\ ops[j].err = "")}

\* getSessionKey(keyId) returns key k, and so revokeSessionKey(keyId) finds it
Retrievable(k) == \E keyId \in DOMAIN sessionKeys : getSessionKey(keyId) = k

\* C30: every key whose allowance authorizeAgent granted and which was not
\* revoked is returned by getSessionKey, and found by revokeSessionKey, under
\* some keyId, after any sequence of authorizeAgent calls, calls with the same
\* label included: no granted allowance is without a record to revoke it by.
C30_GrantedKeyStaysRevocable ==
    \A k \in Granted : Retrievable(k)

\* what holds: the same, as long as no two authorizeAgent calls used the same
\* keyId
GrantedKeyStaysRevocableUnderDistinctIds ==
    (\A i, j \in DOMAIN ops :
        (/\ i # j
         /\ ops[i].op = "authorizeAgent" /\ ops[j].op = "authorizeAgent")
            => ops[i].keyId # ops[j].keyId)
    => C30_GrantedKeyStaysRevocable

\* two keys were granted their allowances under different keyIds, and both
\* are retrievable
TwoGrantsBothRetrievable ==
    /\ Cardinality(Granted) = 2
    /\ \A k \in Granted : Retrievable(k)

Init == InitEscrow

Next == NextEscrow

Spec == Init /\ [][Next]_vars

SpecEscrow == InitEscrow /\ [][NextEscrow]_vars

SpecClientSeq == InitClientSeq /\ [][NextClientSeq]_vars

SpecClientConc == InitClientConc /\ [][NextClientConc]_vars

SpecRoute == InitRoute /\ [][NextRoute]_vars

SpecSettle == InitEscrow /\ [][NextSettle]_vars

SpecCeiling == InitSession /\ [][NextCeiling]_vars

SpecSession == InitSession /\ [][NextSession]_vars

SpecKeysApi == InitSession /\ [][NextKeysApi]_vars

SpecCopy == InitCopy /\ [][NextCopy]_vars

SpecGrants == InitGrants /\ [][NextGrants]_vars

SpecGasless == InitGasless /\ [][NextGasless]_vars

SpecLive == InitLive /\ [][NextLive]_vars /\ FairLive

====
